---- MODULE Spec2Model ----
(***************************************************************************)
(* Model of the data-donation workflow of dd-videos:                       *)
(*   port/script.py   process() and its helpers, extract_youtube,          *)
(*                    extract_tiktok                                       *)
(*   port/youtube.py  DDP_CATEGORIES, STATUS_CODES, validate_zip and the   *)
(*                    *_to_df extractors                                   *)
(*   port/helpers.py  split_dataframe                                      *)
(* process() is a Python generator.  Every `yield` is a point where the    *)
(* generator is suspended; one action of the model is one resumption by    *)
(* the host (next()/send(response)) and runs the code up to the next       *)
(* yield.  The program counter pc names the line of the yield at which the *)
(* generator is suspended.                                                 *)
(***************************************************************************)
EXTENDS FiniteSets, Integers, Sequences, TLC

VARIABLES
    pc,             \* line of the yield the generator is suspended at
    session_id,     \* argument of process()
    pidx,           \* index of the platform of the for loop (script.py:51)
    table_list,     \* local of process(): None or a list of tables
    donation_dict,  \* local of process(): None or an ordered mapping
    file_result,    \* local of process(): the last response to a file prompt
    validation,     \* local of process(): the last validation result
    consent_result, \* local of process(): the last response to a consent form
    dd_i,           \* position of the iteration of donate_dict (script.py:553)
    out,            \* the commands yielded so far, in order
    host_exc,       \* the exception the last resumption raised to the host
    outstanding,    \* indices in out of render commands not yet answered
    tries,          \* per platform: how often "try again" was chosen
    trans,          \* the workflow transitions taken so far, in order
    late_sends,     \* resumptions attempted after the generator finished
    zfile,          \* validate_zip check: the input archive
    vresult,        \* validate_zip check: the returned validation
    call,           \* helpers.py checks: the arguments of the call
    ret             \* helpers.py checks: what the call returned

vars == <<pc, session_id, pidx, table_list, donation_dict, file_result,
          validation, consent_result, dd_i, out, host_exc, outstanding,
          tries, trans, late_sends, zfile, vresult, call, ret>>

----------------------------------------------------------------------------
(* Bounds of the model *)

\* how often "try again" may be chosen in a run
MaxRetries == 1
\* number of full chunks of a long TikTok browsing history
MaxChunks == 1
\* number of non-empty TikTok tables beside the browsing history of an
\* archive that has any (a run of consecutive tables of TIKTOK_TABLES)
MaxOtherTables == 1
\* largest number of rows of a YouTube table
MaxRows == 1
\* resumptions attempted after the generator has finished
MaxLateSends == 1
\* largest number of items of a dict handed to find_item and find_items
MaxEntries == 2
\* largest number of leaves of a structure handed to dict_denester
MaxLeaves == 2
\* largest number of rows of a frame handed to split_dataframe on its own
MaxSplitRows == 12
\* largest chunk_size handed to split_dataframe on its own
MaxChunkSize == 5

----------------------------------------------------------------------------
(* Python's None and optional values: None is the empty sequence, a value  *)
(* v that is not None is <<v>>.                                            *)

None == <<>>

Some(v) == <<v>>

IsNone(o) == o = <<>>

Get(o) == o[1]

Min(a, b) == IF a < b THEN a ELSE b

\* range of a sequence
Range(s) == {s[i] : i \in 1..Len(s)}

----------------------------------------------------------------------------
(* Archives.  A member of an archive is a path; Path(f).name and           *)
(* Path(f).suffix (youtube.py:81-84) are tabulated for the paths used.     *)

MemberPaths ==
    { "Takeout/archive_browser.html",
      "Takeout/YouTube/history/watch-history.html",
      "Takeout/YouTube/history/search-history.html",
      "Takeout/YouTube/geschiedenis/kijkgeschiedenis.html",
      "Takeout/YouTube/subscriptions/subscriptions.csv",
      "Takeout/YouTube/notes/watch-history.txt",
      "Takeout/Drive/photo.json" }

PathName(f) ==
    CASE f = "Takeout/archive_browser.html" -> "archive_browser.html"
      [] f = "Takeout/YouTube/history/watch-history.html" -> "watch-history.html"
      [] f = "Takeout/YouTube/history/search-history.html" -> "search-history.html"
      [] f = "Takeout/YouTube/geschiedenis/kijkgeschiedenis.html" -> "kijkgeschiedenis.html"
      [] f = "Takeout/YouTube/subscriptions/subscriptions.csv" -> "subscriptions.csv"
      [] f = "Takeout/YouTube/notes/watch-history.txt" -> "watch-history.txt"
      [] f = "Takeout/Drive/photo.json" -> "photo.json"
      [] f = "user_data.json" -> "user_data.json"
      [] OTHER -> f

PathSuffix(f) ==
    CASE f = "Takeout/archive_browser.html" -> ".html"
      [] f = "Takeout/YouTube/history/watch-history.html" -> ".html"
      [] f = "Takeout/YouTube/history/search-history.html" -> ".html"
      [] f = "Takeout/YouTube/geschiedenis/kijkgeschiedenis.html" -> ".html"
      [] f = "Takeout/YouTube/subscriptions/subscriptions.csv" -> ".csv"
      [] f = "Takeout/YouTube/notes/watch-history.txt" -> ".txt"
      [] f = "Takeout/Drive/photo.json" -> ".json"
      [] f = "user_data.json" -> ".json"
      [] OTHER -> ""

----------------------------------------------------------------------------
(* An input file as the workflow sees it.  kind tells what opening the     *)
(* path with zipfile.ZipFile does:                                         *)
(*   "zip"          a ZIP container that is read                           *)
(*   "notzip"       bytes that are no ZIP container (no end-of-central-    *)
(*                  directory record, truncated, bad signature)            *)
(*   "unsupported"  a ZIP container with an entry whose "version needed to *)
(*                  extract" is above what zipfile supports                *)
(*   "badname"      a ZIP container with an entry flagged UTF-8 whose name *)
(*                  bytes are not UTF-8                                    *)
(*   "missing"      a path that names no file                              *)
(*   "dir"          a path that names a directory                          *)
(* members are the member paths; the remaining fields are what the members *)
(* hold: the number of entries of the watch history (-1: markup that the   *)
(* scraper cannot read), the number of entries of the search history and   *)
(* how many of them are advertisements, the number of subscriptions, the   *)
(* number of rows of the TikTok browsing history and the TikTok tables     *)
(* that are not empty.                                                     *)

File(kind, members, watch, search, subs, browsing, others) ==
    [kind |-> kind, members |-> members, watch |-> watch, search |-> search,
     ads |-> 0, subs |-> subs, browsing |-> browsing, others |-> others]

\* the file f with a of the entries of its search history advertisements
WithSearchAds(f, a) == [f EXCEPT !.ads = a]

\* the value of a response that carries no file
NoFile == File("none", {}, 0, 0, 0, 0, {})

\* zipfile.ZipFile(zfile, "r") followed by namelist(): the member list, or
\* the exception that opening the path raises
ZipFile(zf) ==
    CASE zf.kind = "zip" -> [exc |-> "", namelist |-> zf.members]
      [] zf.kind = "unsupported" -> [exc |-> "NotImplementedError", namelist |-> {}]
      [] zf.kind = "badname" -> [exc |-> "UnicodeDecodeError", namelist |-> {}]
      [] zf.kind = "missing" -> [exc |-> "FileNotFoundError", namelist |-> {}]
      [] zf.kind = "dir" -> [exc |-> "IsADirectoryError", namelist |-> {}]
      [] OTHER -> [exc |-> "BadZipFile", namelist |-> {}]

----------------------------------------------------------------------------
(* youtube.py:29-63 *)

DDPCategory(id, ddp_filetype, language, known_files) ==
    [id |-> id, ddp_filetype |-> ddp_filetype, language |-> language,
     known_files |-> known_files]

StatusCode(id, description, message) ==
    [id |-> id, description |-> description, message |-> message]

DDP_CATEGORIES ==
    << DDPCategory("html_en", "HTML", "EN",
          { "archive_browser.html", "watch-history.html", "my-comments.html",
            "my-live-chat-messages.html", "subscriptions.csv", "comments.csv" }),
       DDPCategory("html_nl", "HTML", "NL",
          { "archive_browser.html", "kijkgeschiedenis.html",
            "zoekgeschiedenis.html", "mijn-reacties.html", "abonnementen.csv",
            "reacties.csv" }) >>

STATUS_CODES ==
    << StatusCode(0, "Valid DDP", ""),
       StatusCode(1, "Valid DDP unhandled format", ""),
       StatusCode(2, "Not a valid DDP", ""),
       StatusCode(3, "Bad zipfile", "") >>

\* the categories of the TikTok module, which is not part of the sources
TIKTOK_DDP_CATEGORIES ==
    << DDPCategory("json_en", "JSON", "EN", { "user_data.json" }) >>

----------------------------------------------------------------------------
(* The validation result object (port.validate.ValidateInput)              *)

ValidateInput(status_codes, ddp_categories) ==
    [status_codes |-> status_codes, ddp_categories |-> ddp_categories,
     status_code |-> None, ddp_category |-> None]

\* index of the first category in declared order that shares a file name
\* with paths; 0 when there is none
FirstOverlap(ddp_categories, paths) ==
    LET hits == {i \in 1..Len(ddp_categories) :
                    ddp_categories[i].known_files \cap paths # {}}
    IN  IF hits = {} THEN 0
        ELSE CHOOSE i \in hits : \A j \in hits : i <= j

\* infer_ddp_category(paths): attaches the matched category, tells whether
\* one was found
infer_ddp_category(v, paths) ==
    LET i == FirstOverlap(v.ddp_categories, paths)
    IN  IF i = 0
        THEN [found |-> FALSE, validation |-> v]
        ELSE [found |-> TRUE,
              validation |-> [v EXCEPT !.ddp_category = Some(v.ddp_categories[i])]]

\* set_status_code(id): selects the status code with that id
set_status_code(v, id) ==
    LET c == CHOOSE c \in Range(v.status_codes) : c.id = id
    IN  [v EXCEPT !.status_code = Some(c)]

----------------------------------------------------------------------------
(* youtube.py:66-94.  The result is the returned validation and the        *)
(* exception that left the function ("" when it returned).                 *)

\* the suffixes of the members that are kept (youtube.py:82)
KeptSuffixes == {".json", ".csv", ".html"}

\* the status ids set on the three paths of validate_zip; caught are the
\* exceptions of the except clause, any other exception leaves the function
ValidateWith(zf, categories, okId, unhandledId, badZipId, caught) ==
    LET v0 == ValidateInput(STATUS_CODES, categories)
        z  == ZipFile(zf)
    IN  IF z.exc \in caught
        THEN [exc |-> "", validation |-> set_status_code(v0, badZipId)]
        ELSE IF z.exc # ""
        THEN [exc |-> z.exc, validation |-> v0]
        ELSE LET paths == {PathName(f) :
                             f \in {g \in z.namelist : PathSuffix(g) \in KeptSuffixes}}
                 r == infer_ddp_category(v0, paths)
             IN  IF r.found
                 THEN [exc |-> "", validation |-> set_status_code(r.validation, okId)]
                 ELSE [exc |-> "", validation |-> set_status_code(r.validation, unhandledId)]

\* except zipfile.BadZipFile (youtube.py:89)
CaughtByValidateZip == {"BadZipFile"}

validate_zip(zf) == ValidateWith(zf, DDP_CATEGORIES, 0, 1, 3, CaughtByValidateZip)

\* what makes an input "not a valid archive at all (corrupt/unsupported
\* container)"
ArchiveErrors == {"BadZipFile", "NotImplementedError", "UnicodeDecodeError"}

\* tiktok.validate_zip, which is not part of the sources: the same
\* classification over the TikTok categories, a corrupt or unsupported
\* container reported with the "bad archive" status
tiktok_validate_zip(zf) ==
    ValidateWith(zf, TIKTOK_DDP_CATEGORIES, 0, 1, 3, ArchiveErrors)

----------------------------------------------------------------------------
(* Data frames and tables.  A data frame is its set of columns and the     *)
(* range lo..hi-1 of the rows of the source it holds; a name is a base     *)
(* string and the index an f-string appended to it (-1: none).             *)

DataFrame(cols, lo, hi) == [cols |-> cols, lo |-> lo, hi |-> hi]

\* pd.DataFrame()
EmptyDataFrame == DataFrame({}, 0, 0)

\* len(df)
DfLen(df) == df.hi - df.lo

\* df.empty
DfEmpty(df) == df.cols = {} \/ DfLen(df) = 0

Name(base, idx) == [base |-> base, idx |-> idx]

N(s) == Name(s, -1)

\* props.PropsUIPromptConsentFormTable(name, title, df, ...)
PropsUIPromptConsentFormTable(name, df) == [name |-> name, df |-> df]

\* unzipddp.extract_file_from_zip(zip, file_name): whether a member of that
\* name is in the archive
HasMember(zf, file_name) ==
    zf.kind = "zip" /\ \E f \in zf.members : PathName(f) = file_name

WatchColumns == {"Title", "Url", "Advertisement", "Channel", "Date"}

SearchColumns == {"Search Terms", "Url", "Date"}

\* youtube.py:155-213: an unreadable buffer leaves the empty frame
watch_history_extract_html(zf, found) ==
    IF found /\ zf.watch >= 0
    THEN DataFrame(WatchColumns, 0, zf.watch)
    ELSE EmptyDataFrame

\* youtube.py:217-274: an entry that is an advertisement is skipped
\* (youtube.py:233-240), the frame holds the remaining entries
search_history_extract_html(zf, found) ==
    IF found /\ zf.search >= 0
    THEN DataFrame(SearchColumns, 0, zf.search - zf.ads)
    ELSE EmptyDataFrame

\* out["Date standard format"] = out["Date"].apply(...) inside the try
\* block: a KeyError for a frame without the Date column is caught and the
\* frame is returned as it is
AddDateStandardFormat(df) ==
    IF "Date" \in df.cols
    THEN [df EXCEPT !.cols = @ \cup {"Date standard format"}]
    ELSE df

NotImplementedFrame == DataFrame({"Extraction not implemented"}, 0, 1)

\* youtube.py:277-300
watch_history_to_df(zf, v) ==
    LET cat == Get(v.ddp_category)
        file_name == IF cat.language = "NL" THEN "kijkgeschiedenis.html"
                     ELSE "watch-history.html"
    IN  IF cat.ddp_filetype = "HTML"
        THEN AddDateStandardFormat(
                 watch_history_extract_html(zf, HasMember(zf, file_name)))
        ELSE NotImplementedFrame

\* youtube.py:303-325
search_history_to_df(zf, v) ==
    LET cat == Get(v.ddp_category)
        file_name == IF cat.language = "NL" THEN "zoekgeschiedenis.html"
                     ELSE "search-history.html"
    IN  IF cat.ddp_filetype = "HTML"
        THEN AddDateStandardFormat(
                 search_history_extract_html(zf, HasMember(zf, file_name)))
        ELSE NotImplementedFrame

\* youtube.py:123-135
subscriptions_to_df(zf, v) ==
    LET cat == Get(v.ddp_category)
        file_name == IF cat.language = "NL" THEN "abonnementen.csv"
                     ELSE "subscriptions.csv"
    IN  IF HasMember(zf, file_name)
        THEN DataFrame({"Channel Id", "Channel Url", "Channel Title"}, 0, zf.subs)
        ELSE EmptyDataFrame

\* the tables of a list of (name, frame) pairs whose frame is not empty
RECURSIVE NonEmptyTables(_)
NonEmptyTables(pairs) ==
    IF pairs = <<>> THEN <<>>
    ELSE LET t == Head(pairs)
         IN  (IF DfEmpty(t.df) THEN <<>> ELSE <<t>>) \o NonEmptyTables(Tail(pairs))

\* script.py:128-228.  df["Channel"] of a frame without that column raises
\* KeyError (script.py:138), which nothing catches.
extract_youtube(zf, v) ==
    LET watch == watch_history_to_df(zf, v)
    IN  IF "Channel" \notin watch.cols
        THEN [exc |-> "KeyError", tables |-> <<>>, donation_dict |-> None]
        ELSE [exc |-> "",
              tables |-> NonEmptyTables(
                  << PropsUIPromptConsentFormTable(N("youtube_watch_history"), watch),
                     PropsUIPromptConsentFormTable(N("youtube_search_history"),
                                                   search_history_to_df(zf, v)),
                     PropsUIPromptConsentFormTable(N("idasjdhj1"),
                                                   subscriptions_to_df(zf, v)) >>),
              donation_dict |-> None]

----------------------------------------------------------------------------
(* helpers.py:251-263 *)

\* number of chunks that n rows are split into
NumChunks(n, chunk_size) == (n \div chunk_size) + 1

split_dataframe(df, chunk_size) ==
    [i \in 1..NumChunks(DfLen(df), chunk_size) |->
        DataFrame(df.cols,
                  df.lo + (i - 1) * chunk_size,
                  df.lo + Min(i * chunk_size, DfLen(df)))]

----------------------------------------------------------------------------
(* script.py:232-464 *)

\* the row cap of a displayed browsing-history table (script.py:239)
ChunkSize == 250000

\* the tables extracted after the browsing history, in the order of the code
TIKTOK_TABLES ==
    << "tiktok_favorite_videos", "tiktok_favorite_hashtags", "tiktok_like_list",
       "tiktok_searches", "tiktok_share_history", "tiktok_followers",
       "tiktok_following", "tiktok_block_list" >>

\* tiktok.browsing_history_to_df, not part of the sources
browsing_history_to_df(zf) ==
    DataFrame({"Tijdstip", "Gekeken video"}, 0, zf.browsing)

\* the other tiktok.*_to_df functions, not part of the sources
tiktok_table_to_df(zf, name) ==
    IF name \in zf.others THEN DataFrame({"Tijdstip", "Link"}, 0, 1)
    ELSE EmptyDataFrame

\* the (name, frame) pairs of the chunks of the browsing history
BrowsingChunks(zf) ==
    LET df == browsing_history_to_df(zf)
    IN  IF DfEmpty(df) THEN <<>>
        ELSE LET dfs == split_dataframe(df, ChunkSize)
             IN  [i \in 1..Len(dfs) |->
                    PropsUIPromptConsentFormTable(
                        Name("tiktok_video_browsing_history", i - 1), dfs[i])]

OtherTikTokTables(zf) ==
    NonEmptyTables([i \in 1..Len(TIKTOK_TABLES) |->
        PropsUIPromptConsentFormTable(N(TIKTOK_TABLES[i]),
                                      tiktok_table_to_df(zf, TIKTOK_TABLES[i]))])

\* an extract_tiktok whose mapping holds the rendered chunk only
extract_tiktok_firstonly(zf, v) ==
    LET chunks == BrowsingChunks(zf)
        others == OtherTikTokTables(zf)
        first == IF chunks = <<>> THEN <<>> ELSE <<chunks[1]>>
    IN  [exc |-> "", tables |-> first \o others, donation_dict |-> Some(first \o others)]

\* only the first chunk is rendered, every chunk goes to the mapping
extract_tiktok(zf, v) ==
    LET chunks == BrowsingChunks(zf)
        others == OtherTikTokTables(zf)
    IN  [exc |-> "",
         tables |-> (IF chunks = <<>> THEN <<>> ELSE <<chunks[1]>>) \o others,
         donation_dict |-> Some(chunks \o others)]

----------------------------------------------------------------------------
(* Commands (port.api.commands) and the helpers of script.py that build    *)
(* them.  A key is the parts an f-string joins and the separator between   *)
(* them.                                                                   *)

Key(sep, parts) == [sep |-> sep, parts |-> parts]

Payload(kind, text, tables) == [kind |-> kind, text |-> text, tables |-> tables]

Command(type, key, payload, code) ==
    [type |-> type, key |-> key, payload |-> payload, code |-> code]

\* script.py:540-541
donate(key, json_string) == Command("donate", key, json_string, -1)

\* script.py:478-485: LOG_STREAM is never written (script.py:24), so the
\* donated log is always ["no logs"]
donate_logs(key) == donate(key, Payload("logs", "no logs", <<>>))

\* script.py:548-549
donate_status(filename, message) ==
    donate(filename, Payload("status", message, <<>>))

\* script.py:544-545
exit(code, info) == Command("exit", Key("", <<>>), Payload("exit", info, <<>>), code)

\* script.py:506-515
render_page(platform, body) == Command("render", Key("", <<N(platform)>>), body, -1)

\* script.py:501-503
render_end_page == Command("render", Key("", <<>>), Payload("end", "", <<>>), -1)

\* script.py:530-537
prompt_file(extensions, platform) == Payload("prompt_file", extensions, <<>>)

\* script.py:518-527
retry_confirmation(platform) == Payload("confirm", platform, <<>>)

\* script.py:471-475
assemble_tables_into_form(tables) == Payload("consent_form", "", tables)

\* script.py:488-498
\* f"{platform_name}_no_data_found"
NoDataFoundName(name) ==
    CASE name = "YouTube" -> "YouTube_no_data_found"
      [] name = "TikTok" -> "TikTok_no_data_found"
      [] OTHER -> "_no_data_found"

create_empty_table(name) ==
    PropsUIPromptConsentFormTable(N(NoDataFoundName(name)),
                                  DataFrame({"No data found"}, 0, 1))

\* script.py:552-555: the command donate_dict yields for the i-th item
donate_dict_item(platform_name, d, i) ==
    donate(Key("_", <<N(platform_name), d[i].name>>),
           Payload("dict", "", <<d[i]>>))

\* the keys of the log and status donations of process()
SessionLogKey(sid) == Key("-", <<N(sid), N("tracking")>>)

PlatformLogKey(sid, platform_name) ==
    Key("-", <<N(sid), N(platform_name), N("tracking")>>)

StatusKey(sid, platform_name, tail) ==
    Key("-", <<N(sid), N(platform_name), N(tail)>>)

----------------------------------------------------------------------------
(* script.py:43 *)

platforms ==
    << [name |-> "YouTube", extraction_fun |-> "extract_youtube",
        validation_fun |-> "youtube.validate_zip"],
       [name |-> "TikTok", extraction_fun |-> "extract_tiktok",
        validation_fun |-> "tiktok.validate_zip"] >>

platform_name == platforms[pidx].name

validation_fun(zf) ==
    IF platforms[pidx].validation_fun = "youtube.validate_zip"
    THEN validate_zip(zf)
    ELSE tiktok_validate_zip(zf)

extraction_fun(zf, v) ==
    IF platforms[pidx].extraction_fun = "extract_youtube"
    THEN extract_youtube(zf, v)
    ELSE extract_tiktok(zf, v)

\* validation.status_code.id
StatusId(v) == Get(v.status_code).id

NoValidation == ValidateInput(<<>>, <<>>)

NoResult == [exc |-> "", validation |-> NoValidation]

----------------------------------------------------------------------------
(* Host responses *)

\* a response is tagged with its type: "PayloadString", "PayloadTrue",
\* "PayloadJSON", or "PayloadFalse" for no value
Response(type, value) == [type |-> type, value |-> value]

\* the rows of the browsing history the model tries: none, one, MaxChunks
\* full chunks, and one row more than that
BrowsingCounts == {0, 1, MaxChunks * ChunkSize, MaxChunks * ChunkSize + 1}

\* the members of a Takeout export in English
TakeoutMembers ==
    { "Takeout/archive_browser.html",
      "Takeout/YouTube/history/watch-history.html",
      "Takeout/YouTube/history/search-history.html",
      "Takeout/YouTube/subscriptions/subscriptions.csv" }

\* paths that zipfile.ZipFile raises on with something else than BadZipFile
UnreadableFiles ==
    { File("unsupported", TakeoutMembers, 1, 1, 1, 0, {}),
      File("badname", TakeoutMembers, 1, 1, 1, 0, {}),
      File("missing", {}, 0, 0, 0, 0, {}) }

YouTubeFiles ==
    UnreadableFiles
    \cup
    { File("notzip", {}, 0, 0, 0, 0, {}),
      File("zip", {"Takeout/Drive/photo.json", "Takeout/YouTube/notes/watch-history.txt"},
           0, 0, 0, 0, {}),
      File("zip", {"Takeout/YouTube/subscriptions/subscriptions.csv"}, 0, 0, 1, 0, {}),
      File("zip", {"Takeout/archive_browser.html",
                   "Takeout/YouTube/geschiedenis/kijkgeschiedenis.html"},
           1, 0, 0, 0, {}),
      File("zip", {"Takeout/YouTube/geschiedenis/kijkgeschiedenis.html"},
           1, 0, 0, 0, {}) }
    \cup
    { WithSearchAds(File("zip", TakeoutMembers, w, sa[1], sa[1], 0, {}), sa[2]) :
        w \in -1..MaxRows,
        sa \in {x \in {0, MaxRows} \X {0, 1} : x[2] <= x[1]} }

\* no table, and the runs of MaxOtherTables consecutive tables of
\* TIKTOK_TABLES
OtherTableChoices ==
    {{TIKTOK_TABLES[i] : i \in ak[1]..(ak[1] + ak[2] - 1)} :
        ak \in {x \in (1..Len(TIKTOK_TABLES)) \X {0, MaxOtherTables} :
                   x[1] + x[2] - 1 <= Len(TIKTOK_TABLES)}}

TikTokFiles ==
    { File("unsupported", {"user_data.json"}, 0, 0, 0, 1, {}),
      File("missing", {}, 0, 0, 0, 0, {}) }
    \cup
    { File("notzip", {}, 0, 0, 0, 0, {}),
      File("zip", {"Takeout/Drive/photo.json"}, 0, 0, 0, 0, {}) }
    \cup
    { File("zip", {"user_data.json"}, 0, 0, 0, b, o) :
        b \in BrowsingCounts,
        o \in OtherTableChoices }

\* the files a user can hand in when prompted for a platform
FilesOf(p) == IF platforms[p].name = "YouTube" THEN YouTubeFiles ELSE TikTokFiles

FilePromptResponses(p) ==
    {Response("PayloadString", f) : f \in FilesOf(p)}
    \cup {Response(t, NoFile) : t \in {"PayloadFalse", "PayloadTrue"}}

RetryResponses ==
    {Response(t, NoFile) : t \in {"PayloadTrue", "PayloadFalse", "PayloadString"}}

\* the consent form's tables as the host serializes them
Serialize(tables) == tables

\* the same with the last row of the first table deleted by the user
DeleteRow(tables) ==
    IF tables # <<>> /\ DfLen(tables[1].df) > 0
    THEN [tables EXCEPT ![1].df.hi = @ - 1]
    ELSE tables

ConsentResponses(tables) ==
    { Response("PayloadJSON", Serialize(tables)),
      Response("PayloadJSON", DeleteRow(Serialize(tables))) }
    \cup {Response(t, <<>>) : t \in {"PayloadFalse", "PayloadTrue"}}

----------------------------------------------------------------------------
(* The generator process(session_id), script.py:39-122 *)

SessionIds == {"s1"}

\* no call of a function of helpers.py is being checked
NoCall == <<>>

Init ==
    /\ pc = "start"
    /\ session_id \in SessionIds
    /\ pidx = 1
    /\ table_list = None
    /\ donation_dict = None
    /\ file_result = Response("PayloadFalse", NoFile)
    /\ validation = NoValidation
    /\ consent_result = Response("PayloadFalse", <<>>)
    /\ dd_i = 0
    /\ out = <<>>
    /\ host_exc = ""
    /\ outstanding = {}
    /\ tries = [p \in 1..Len(platforms) |-> 0]
    /\ trans = <<>>
    /\ late_sends = 0
    /\ zfile = NoFile
    /\ vresult = NoResult
    /\ call = NoCall
    /\ ret = NoCall

\* the part of the state that belongs to the checks of validate_zip and of
\* the functions of helpers.py
ValidateVars == <<zfile, vresult, call, ret>>

RECURSIVE SeqSum(_)
SeqSum(s) == IF s = <<>> THEN 0 ELSE Head(s) + SeqSum(Tail(s))

\* the retries chosen so far, over all platforms
TotalTries == SeqSum(tries)

\* the resumption answers the command the generator is suspended at
Answered(o) == o \ {Len(out)}

\* the generator runs to the yield at line l and hands cmd to the host
Yield(l, cmd) ==
    /\ pc' = l
    /\ out' = Append(out, cmd)
    /\ host_exc' = ""
    /\ outstanding' = Answered(outstanding) \cup
                      (IF cmd.type = "render" THEN {Len(out) + 1} ELSE {})

\* an exception leaves the generator: no command, the generator is dead
Raise(e) ==
    /\ pc' = "raised"
    /\ out' = out
    /\ host_exc' = e
    /\ outstanding' = Answered(outstanding)

\* history: transition name of platform pidx, taken when at commands had
\* been yielded; n is the number of tables the extraction returned
TransitionN(name, n) ==
    trans' = Append(trans, [p |-> pidx, name |-> name, at |-> Len(out), n |-> n])

Transition(name) == TransitionN(name, 0)

\* a for loop that leaves table_list and donation_dict as the platform
\* before left them
EnterPlatform_noreset(p) ==
    IF p <= Len(platforms)
    THEN /\ pidx' = p
         /\ UNCHANGED <<table_list, donation_dict>>
         /\ Yield("L60", donate_logs(PlatformLogKey(session_id, platforms[p].name)))
    ELSE /\ pidx' = p
         /\ UNCHANGED <<table_list, donation_dict>>
         /\ Yield("L121", exit(0, "Success"))

\* script.py:51-60 and 121: the for loop takes platform p, or ends
EnterPlatform(p) ==
    IF p <= Len(platforms)
    THEN /\ pidx' = p
         /\ table_list' = None
         /\ donation_dict' = None
         /\ Yield("L60", donate_logs(PlatformLogKey(session_id, platforms[p].name)))
    ELSE /\ pidx' = p
         /\ UNCHANGED <<table_list, donation_dict>>
         /\ Yield("L121", exit(0, "Success"))

\* script.py:95-97 after a break of the prompt loop
AfterPromptLoop ==
    IF ~IsNone(table_list)
    THEN /\ Yield("L97", donate_logs(PlatformLogKey(session_id, platform_name)))
         /\ UNCHANGED <<pidx, table_list, donation_dict>>
    ELSE EnterPlatform(pidx + 1)

\* next(process(session_id)): script.py:40-41
Start ==
    /\ pc = "start"
    /\ Yield("L41", donate_logs(SessionLogKey(session_id)))
    /\ UNCHANGED <<session_id, pidx, table_list, donation_dict, file_result,
                   validation, consent_result, dd_i, tries, trans, late_sends,
                   ValidateVars>>

\* script.py:41-60
Resume41 ==
    /\ pc = "L41"
    /\ EnterPlatform(1)
    /\ UNCHANGED <<session_id, file_result, validation, consent_result, dd_i,
                   tries, trans, late_sends, ValidateVars>>

\* script.py:60-64
Resume60 ==
    /\ pc = "L60"
    /\ Yield("L64", render_page(platform_name,
                 prompt_file("application/zip, text/plain, application/json",
                             platform_name)))
    /\ UNCHANGED <<session_id, pidx, table_list, donation_dict, file_result,
                   validation, consent_result, dd_i, tries, trans, late_sends,
                   ValidateVars>>

\* script.py:64-72, 78-80, 89-91
Resume64(resp) ==
    /\ pc = "L64"
    /\ file_result' = resp
    /\ IF resp.type = "PayloadString"
       THEN LET r == validation_fun(resp.value)
            IN  IF r.exc # ""
                THEN /\ Raise(r.exc)
                     /\ UNCHANGED <<validation, trans>>
                ELSE /\ validation' = r.validation
                     /\ IF StatusId(r.validation) = 0
                        THEN /\ Yield("L72", donate_logs(
                                    PlatformLogKey(session_id, platform_name)))
                             /\ Transition("file_accepted")
                        ELSE /\ Yield("L80", donate_logs(
                                    PlatformLogKey(session_id, platform_name)))
                             /\ Transition("file_rejected")
       ELSE /\ Yield("L91", donate_logs(PlatformLogKey(session_id, platform_name)))
            /\ Transition("file_skipped")
            /\ UNCHANGED validation
    /\ UNCHANGED <<session_id, pidx, table_list, donation_dict, consent_result,
                   dd_i, tries, late_sends, ValidateVars>>

\* script.py:72-75, 95-97
Resume72 ==
    /\ pc = "L72"
    /\ LET r == extraction_fun(file_result.value, validation)
       IN  IF r.exc # ""
           THEN /\ Raise(r.exc)
                /\ UNCHANGED <<table_list, donation_dict, trans>>
           ELSE /\ table_list' = Some(r.tables)
                /\ donation_dict' = r.donation_dict
                /\ Yield("L97", donate_logs(PlatformLogKey(session_id, platform_name)))
                /\ TransitionN("extraction_done", Len(r.tables))
    /\ UNCHANGED <<session_id, pidx, file_result, validation, consent_result,
                   dd_i, tries, late_sends, ValidateVars>>

\* a retry step that reads the answer without rendering the confirmation:
\* it logs once more and takes the response to that donation as the answer
Resume80_norender ==
    /\ pc = "L80"
    /\ Yield("L81", donate_logs(PlatformLogKey(session_id, platform_name)))
    /\ UNCHANGED <<session_id, pidx, table_list, donation_dict, file_result,
                   validation, consent_result, dd_i, tries, trans, late_sends,
                   ValidateVars>>

\* script.py:80-81
Resume80 ==
    /\ pc = "L80"
    /\ Yield("L81", render_page(platform_name, retry_confirmation(platform_name)))
    /\ UNCHANGED <<session_id, pidx, table_list, donation_dict, file_result,
                   validation, consent_result, dd_i, tries, trans, late_sends,
                   ValidateVars>>

\* a retry confirmation that leaves the prompt loop whatever the answer
Resume81_break(resp) ==
    /\ pc = "L81"
    /\ IF resp.type = "PayloadTrue"
       THEN /\ TotalTries < MaxRetries
            /\ tries' = [tries EXCEPT ![pidx] = @ + 1]
            /\ Yield("L87", donate_logs(PlatformLogKey(session_id, platform_name)))
            /\ Transition("retry_chosen")
       ELSE /\ tries' = tries
            /\ Yield("L87", donate_logs(PlatformLogKey(session_id, platform_name)))
            /\ Transition("skipped_during_retry")
    /\ UNCHANGED <<session_id, pidx, table_list, donation_dict, file_result,
                   validation, consent_result, dd_i, late_sends, ValidateVars>>

\* script.py:81-87: "try again" goes back to the head of the prompt loop
Resume81(resp) ==
    /\ pc = "L81"
    /\ IF resp.type = "PayloadTrue"
       THEN /\ TotalTries < MaxRetries
            /\ tries' = [tries EXCEPT ![pidx] = @ + 1]
            /\ Yield("L60", donate_logs(PlatformLogKey(session_id, platform_name)))
            /\ Transition("retry_chosen")
       ELSE /\ tries' = tries
            /\ Yield("L87", donate_logs(PlatformLogKey(session_id, platform_name)))
            /\ Transition("skipped_during_retry")
    /\ UNCHANGED <<session_id, pidx, table_list, donation_dict, file_result,
                   validation, consent_result, dd_i, late_sends, ValidateVars>>

\* script.py:87-88, then 95 or the next platform
Resume87 ==
    /\ pc = "L87"
    /\ AfterPromptLoop
    /\ UNCHANGED <<session_id, file_result, validation, consent_result, dd_i,
                   tries, trans, late_sends, ValidateVars>>

\* a skip that reads the value of the response, which has none
Resume91_raise ==
    /\ pc = "L91"
    /\ Raise("AttributeError")
    /\ UNCHANGED <<session_id, pidx, table_list, donation_dict, file_result,
                   validation, consent_result, dd_i, tries, trans, late_sends,
                   ValidateVars>>

\* script.py:91-92, then 95 or the next platform
Resume91 ==
    /\ pc = "L91"
    /\ AfterPromptLoop
    /\ UNCHANGED <<session_id, file_result, validation, consent_result, dd_i,
                   tries, trans, late_sends, ValidateVars>>

\* script.py:97-105
Resume97 ==
    /\ pc = "L97"
    /\ IF Len(Get(table_list)) = 0
       THEN Yield("L101", donate_status(
                StatusKey(session_id, platform_name, "NO-DATA-FOUND"), "NO_DATA_FOUND"))
       ELSE Yield("L105", render_page(platform_name,
                assemble_tables_into_form(Get(table_list))))
    /\ UNCHANGED <<session_id, pidx, table_list, donation_dict, file_result,
                   validation, consent_result, dd_i, tries, trans, late_sends,
                   ValidateVars>>

\* a consent step that forgets the placeholder table
Resume101_noappend ==
    /\ pc = "L101"
    /\ table_list' = table_list
    /\ Yield("L105", render_page(platform_name,
                assemble_tables_into_form(Get(table_list))))
    /\ UNCHANGED <<session_id, pidx, donation_dict, file_result, validation,
                   consent_result, dd_i, tries, trans, late_sends, ValidateVars>>

\* script.py:101-105
Resume101 ==
    /\ pc = "L101"
    /\ table_list' = Some(Append(Get(table_list), create_empty_table(platform_name)))
    /\ Yield("L105", render_page(platform_name,
                assemble_tables_into_form(Get(table_list'))))
    /\ UNCHANGED <<session_id, pidx, donation_dict, file_result, validation,
                   consent_result, dd_i, tries, trans, late_sends, ValidateVars>>

\* a donation step that donates the displayed tables, not the response
Resume105_tables(resp) ==
    /\ pc = "L105"
    /\ consent_result' = resp
    /\ IF resp.type = "PayloadJSON"
       THEN /\ Transition("consent_accepted")
            /\ IF ~IsNone(donation_dict)
               THEN IF Len(Get(donation_dict)) > 0
                    THEN /\ dd_i' = 1
                         /\ Yield("L555", donate_dict_item(platform_name,
                                              Get(donation_dict), 1))
                    ELSE /\ dd_i' = 0
                         /\ Yield("L113", donate_logs(
                                PlatformLogKey(session_id, platform_name)))
               ELSE /\ dd_i' = dd_i
                    /\ Yield("L112", donate(Key("", <<N(platform_name)>>),
                                            Payload("consent_json", "",
                                                    Serialize(Get(table_list)))))
       ELSE /\ Transition("consent_declined")
            /\ dd_i' = dd_i
            /\ Yield("L118", donate_logs(PlatformLogKey(session_id, platform_name)))
    /\ UNCHANGED <<session_id, pidx, table_list, donation_dict, file_result,
                   validation, tries, late_sends, ValidateVars>>

\* a consent step that donates whatever the type of the response
Resume105_anytype(resp) ==
    /\ pc = "L105"
    /\ consent_result' = resp
    /\ IF resp.type \in {"PayloadJSON", "PayloadFalse", "PayloadTrue"}
       THEN /\ Transition("consent_accepted")
            /\ IF ~IsNone(donation_dict)
               THEN IF Len(Get(donation_dict)) > 0
                    THEN /\ dd_i' = 1
                         /\ Yield("L555", donate_dict_item(platform_name,
                                              Get(donation_dict), 1))
                    ELSE /\ dd_i' = 0
                         /\ Yield("L113", donate_logs(
                                PlatformLogKey(session_id, platform_name)))
               ELSE /\ dd_i' = dd_i
                    /\ Yield("L112", donate(Key("", <<N(platform_name)>>),
                                            Payload("consent_json", "", resp.value)))
       ELSE /\ Transition("consent_declined")
            /\ dd_i' = dd_i
            /\ Yield("L118", donate_logs(PlatformLogKey(session_id, platform_name)))
    /\ UNCHANGED <<session_id, pidx, table_list, donation_dict, file_result,
                   validation, tries, late_sends, ValidateVars>>

\* script.py:105-113, 116-118
Resume105(resp) ==
    /\ pc = "L105"
    /\ consent_result' = resp
    /\ IF resp.type = "PayloadJSON"
       THEN /\ Transition("consent_accepted")
            /\ IF ~IsNone(donation_dict)
               THEN IF Len(Get(donation_dict)) > 0
                    THEN /\ dd_i' = 1
                         /\ Yield("L555", donate_dict_item(platform_name,
                                              Get(donation_dict), 1))
                    ELSE /\ dd_i' = 0
                         /\ Yield("L113", donate_logs(
                                PlatformLogKey(session_id, platform_name)))
               ELSE /\ dd_i' = dd_i
                    /\ Yield("L112", donate(Key("", <<N(platform_name)>>),
                                            Payload("consent_json", "", resp.value)))
       ELSE /\ Transition("consent_declined")
            /\ dd_i' = dd_i
            /\ Yield("L118", donate_logs(PlatformLogKey(session_id, platform_name)))
    /\ UNCHANGED <<session_id, pidx, table_list, donation_dict, file_result,
                   validation, tries, late_sends, ValidateVars>>

\* a donate_dict that stops one item early
Resume555_skiplast ==
    /\ pc = "L555"
    /\ IF dd_i + 1 < Len(Get(donation_dict))
       THEN /\ dd_i' = dd_i + 1
            /\ Yield("L555", donate_dict_item(platform_name, Get(donation_dict),
                                              dd_i + 1))
       ELSE /\ dd_i' = dd_i
            /\ Yield("L113", donate_logs(PlatformLogKey(session_id, platform_name)))
    /\ UNCHANGED <<session_id, pidx, table_list, donation_dict, file_result,
                   validation, consent_result, tries, trans, late_sends,
                   ValidateVars>>

\* script.py:553-555, then 113
Resume555 ==
    /\ pc = "L555"
    /\ IF dd_i < Len(Get(donation_dict))
       THEN /\ dd_i' = dd_i + 1
            /\ Yield("L555", donate_dict_item(platform_name, Get(donation_dict),
                                              dd_i + 1))
       ELSE /\ dd_i' = dd_i
            /\ Yield("L113", donate_logs(PlatformLogKey(session_id, platform_name)))
    /\ UNCHANGED <<session_id, pidx, table_list, donation_dict, file_result,
                   validation, consent_result, tries, trans, late_sends,
                   ValidateVars>>

\* script.py:112-113
Resume112 ==
    /\ pc = "L112"
    /\ Yield("L113", donate_logs(PlatformLogKey(session_id, platform_name)))
    /\ UNCHANGED <<session_id, pidx, table_list, donation_dict, file_result,
                   validation, consent_result, dd_i, tries, trans, late_sends,
                   ValidateVars>>

\* script.py:113-114
Resume113 ==
    /\ pc = "L113"
    /\ Yield("L114", donate_status(
            StatusKey(session_id, platform_name, "DONATED"), "DONATED"))
    /\ UNCHANGED <<session_id, pidx, table_list, donation_dict, file_result,
                   validation, consent_result, dd_i, tries, trans, late_sends,
                   ValidateVars>>

\* script.py:114, then the next platform
Resume114 ==
    /\ pc = "L114"
    /\ EnterPlatform(pidx + 1)
    /\ UNCHANGED <<session_id, file_result, validation, consent_result, dd_i,
                   tries, trans, late_sends, ValidateVars>>

\* a declined consent that goes on without its status event
Resume118_nostatus ==
    /\ pc = "L118"
    /\ EnterPlatform(pidx + 1)
    /\ UNCHANGED <<session_id, file_result, validation, consent_result, dd_i,
                   tries, trans, late_sends, ValidateVars>>

\* script.py:118-119
Resume118 ==
    /\ pc = "L118"
    /\ Yield("L119", donate_status(
            StatusKey(session_id, platform_name, "SKIP-REVIEW-CONSENT"),
            "SKIP_REVIEW_CONSENT"))
    /\ UNCHANGED <<session_id, pidx, table_list, donation_dict, file_result,
                   validation, consent_result, dd_i, tries, trans, late_sends,
                   ValidateVars>>

\* script.py:119, then the next platform
Resume119 ==
    /\ pc = "L119"
    /\ EnterPlatform(pidx + 1)
    /\ UNCHANGED <<session_id, file_result, validation, consent_result, dd_i,
                   tries, trans, late_sends, ValidateVars>>

\* a process() that returns right after the exit command
Resume121_noend ==
    /\ pc = "L121"
    /\ pc' = "done"
    /\ host_exc' = "StopIteration"
    /\ outstanding' = Answered(outstanding)
    /\ UNCHANGED <<session_id, pidx, table_list, donation_dict, file_result,
                   validation, consent_result, dd_i, out, tries, trans,
                   late_sends, ValidateVars>>

\* script.py:121-122
Resume121 ==
    /\ pc = "L121"
    /\ Yield("L122", render_end_page)
    /\ UNCHANGED <<session_id, pidx, table_list, donation_dict, file_result,
                   validation, consent_result, dd_i, tries, trans, late_sends,
                   ValidateVars>>

\* script.py:122: the generator returns, the host gets StopIteration
Resume122 ==
    /\ pc = "L122"
    /\ pc' = "done"
    /\ host_exc' = "StopIteration"
    /\ outstanding' = Answered(outstanding)
    /\ UNCHANGED <<session_id, pidx, table_list, donation_dict, file_result,
                   validation, consent_result, dd_i, out, tries, trans,
                   late_sends, ValidateVars>>

\* a resumption of a generator that has returned or raised: StopIteration
\* again and nothing else
LateSend ==
    /\ pc \in {"done", "raised"}
    /\ late_sends < MaxLateSends
    /\ late_sends' = late_sends + 1
    /\ host_exc' = "StopIteration"
    /\ UNCHANGED <<pc, session_id, pidx, table_list, donation_dict, file_result,
                   validation, consent_result, dd_i, out, outstanding, tries,
                   trans, ValidateVars>>

Next ==
    \/ Start
    \/ Resume41
    \/ Resume60
    \/ /\ pc = "L64"
       /\ \E resp \in FilePromptResponses(pidx) : Resume64(resp)
    \/ Resume72
    \/ Resume80
    \/ \E resp \in RetryResponses : Resume81(resp)
    \/ Resume87
    \/ Resume91
    \/ Resume97
    \/ Resume101
    \/ /\ pc = "L105"
       /\ \E resp \in ConsentResponses(Get(table_list)) : Resume105(resp)
    \/ Resume555
    \/ Resume112
    \/ Resume113
    \/ Resume114
    \/ Resume118
    \/ Resume119
    \/ Resume121
    \/ Resume122
    \/ LateSend

Spec == Init /\ [][Next]_vars

----------------------------------------------------------------------------
(* validate_zip on its own: the input is any archive over MemberPaths, or  *)
(* bytes that are no ZIP container, and the function is applied once.      *)

ValidateFiles ==
    {File(k, m, 0, 0, 0, 0, {}) :
        k \in {"zip", "notzip", "unsupported", "badname"}, m \in SUBSET MemberPaths}
    \cup {File(k, {}, 0, 0, 0, 0, {}) : k \in {"missing", "dir"}}

InitValidate ==
    /\ pc = "v_call"
    /\ session_id \in SessionIds
    /\ pidx = 1
    /\ table_list = None
    /\ donation_dict = None
    /\ file_result = Response("PayloadFalse", NoFile)
    /\ validation = NoValidation
    /\ consent_result = Response("PayloadFalse", <<>>)
    /\ dd_i = 0
    /\ out = <<>>
    /\ host_exc = ""
    /\ outstanding = {}
    /\ tries = [p \in 1..Len(platforms) |-> 0]
    /\ trans = <<>>
    /\ late_sends = 0
    /\ zfile \in ValidateFiles
    /\ vresult = NoResult
    /\ call = NoCall
    /\ ret = NoCall

CallValidateZip ==
    /\ pc = "v_call"
    /\ vresult' = validate_zip(zfile)
    /\ pc' = "v_ret"
    /\ UNCHANGED <<session_id, pidx, table_list, donation_dict, file_result,
                   validation, consent_result, dd_i, out, host_exc, outstanding,
                   tries, trans, late_sends, zfile, call, ret>>

NextValidate == CallValidateZip

SpecValidate == InitValidate /\ [][NextValidate]_vars

----------------------------------------------------------------------------
(* helpers.py.  A Python string is the sequence of its characters, so that *)
(* f-strings, slices, str.count and pattern matching are computed on it.   *)
(* A key or a leaf value of a dict is an object with its type and its text *)
(* (for an int the text is its decimal digits).                            *)

Obj(type, text) == [type |-> type, text |-> text]

\* str(o)
str(o) ==
    CASE o.type = "str" -> o.text
      [] o.type = "int" -> o.text
      [] o.type = "NoneType" -> <<"N", "o", "n", "e">>

\* k.count("-")
CountDash(k) == Cardinality({i \in 1..Len(k) : k[i] = "-"})

\* an item of a dict; a dict is the sequence of its items in iteration
\* (insertion) order, with distinct keys
Item(k, v) == [k |-> k, v |-> v]

(* re.match(pattern, k) with pattern = "^.*" + key_to_match + ".*$",       *)
(* helpers.py:81,86.  key_to_match is not escaped: it is a part of the     *)
(* regular expression.  Of the syntax, the model has literal characters,   *)
(* "." (any character but a line break) and "(" (opens a group; a group    *)
(* that is never closed does not compile).                                 *)

\* re.compile fails with re.error
PatternError(key_to_match) ==
    \E i \in 1..Len(key_to_match) : key_to_match[i] = "("

\* one element of the pattern against one character
CharMatches(p, c) == IF p = "." THEN c # "\n" ELSE p = c

\* key_to_match matches the characters of k from position i on
MatchesAt(key_to_match, k, i) ==
    \A j \in 1..Len(key_to_match) : CharMatches(key_to_match[j], k[i + j - 1])

\* the positions of k at which "$" matches: the end of the string, and
\* just before a line break that ends the string
DollarPositions(k) ==
    {Len(k)} \cup (IF k # <<>> /\ k[Len(k)] = "\n" THEN {Len(k) - 1} ELSE {})

\* the result of re.match for a pattern that compiles and a str k: the
\* match starts at the start of k, key_to_match matches at some position
\* i, the two ".*" take what lies before and behind it up to a position e
\* where "$" matches, and ".*" takes no line break
re_match(key_to_match, k) ==
    \E e \in DollarPositions(k) :
        \E i \in 1..(e - Len(key_to_match) + 1) :
            /\ MatchesAt(key_to_match, k, i)
            /\ \A j \in 1..(i - 1) : k[j] # "\n"
            /\ \A j \in (i + Len(key_to_match))..e : k[j] # "\n"

\* the exception re.match raises for key k: the pattern is compiled first,
\* then the type of k is checked
MatchRaises(key_to_match, k) ==
    IF PatternError(key_to_match) THEN "re.error"
    ELSE IF k.type # "str" THEN "TypeError"
    ELSE ""

\* helpers.py:85-90, from item i on; depth is None for math.inf; strict
\* tells whether the depths are compared with <
RECURSIVE FindItemLoop(_, _, _, _, _, _)
FindItemLoop(d, key_to_match, i, out_, depth, strict) ==
    IF i > Len(d)
    THEN [exc |-> "", out |-> out_]
    ELSE LET k == d[i].k
             e == MatchRaises(key_to_match, k)
         IN  IF e # ""
             THEN [exc |-> e, out |-> out_]
             ELSE LET depth_current_match == CountDash(k.text)
                      less == \/ IsNone(depth)
                              \/ depth_current_match < Get(depth)
                              \/ ~strict /\ depth_current_match = Get(depth)
                  IN  IF re_match(key_to_match, k.text) /\ less
                      THEN FindItemLoop(d, key_to_match, i + 1, str(d[i].v),
                                        Some(depth_current_match), strict)
                      ELSE FindItemLoop(d, key_to_match, i + 1, out_, depth, strict)

\* helpers.py:80-94: the try block and its except clause, which catches the
\* exception classes in caught; exc is the exception that leaves the call
FindItemWith(d, key_to_match, strict, caught) ==
    LET r == FindItemLoop(d, key_to_match, 1, <<>>, None, strict)
    IN  [exc |-> IF r.exc \in caught THEN "" ELSE r.exc, out |-> r.out]

\* the exception classes that `except Exception` catches here
Exceptions == {"re.error", "TypeError"}

\* a find_item that compares the depths with <=
find_item_le(d, key_to_match) == FindItemWith(d, key_to_match, FALSE, Exceptions)

find_item(d, key_to_match) == FindItemWith(d, key_to_match, TRUE, Exceptions)

\* helpers.py:108-110, from item i on
RECURSIVE FindItemsLoop(_, _, _, _)
FindItemsLoop(d, key_to_match, i, out_) ==
    IF i > Len(d)
    THEN [exc |-> "", out |-> out_]
    ELSE LET k == d[i].k
             e == MatchRaises(key_to_match, k)
         IN  IF e # ""
             THEN [exc |-> e, out |-> out_]
             ELSE IF re_match(key_to_match, k.text)
                  THEN FindItemsLoop(d, key_to_match, i + 1, Append(out_, str(d[i].v)))
                  ELSE FindItemsLoop(d, key_to_match, i + 1, out_)

\* helpers.py:103-114
FindItemsWith(d, key_to_match, caught) ==
    LET r == FindItemsLoop(d, key_to_match, 1, <<>>)
    IN  [exc |-> IF r.exc \in caught THEN "" ELSE r.exc, out |-> r.out]

\* a find_items whose except clause catches re.error only
find_items_reerror(d, key_to_match) == FindItemsWith(d, key_to_match, {"re.error"})

find_items(d, key_to_match) == FindItemsWith(d, key_to_match, Exceptions)

----------------------------------------------------------------------------
(* find_item and find_items on their own: the input is a dict of at most   *)
(* MaxEntries items and a key_to_match, and one of the functions is        *)
(* applied once.                                                           *)

\* the keys of the dicts: paths of a denested dict, one of them ending
\* with a line break, and a key that is no str
FindKeys ==
    { Obj("str", <<"a", "-", "1">>),
      Obj("str", <<"a", "-", "1", "\n">>),
      Obj("str", <<"a", "-", "2">>),
      Obj("str", <<"a", "-", "b">>),
      Obj("str", <<"a", "-", "b", "-", "c">>),
      Obj("str", <<"c">>),
      Obj("int", <<"1">>) }

FindValues ==
    { Obj("str", <<"p">>), Obj("str", <<"q">>), Obj("int", <<"7">>) }

FindPatterns ==
    { <<"a">>, <<"b">>, <<"-", "b">>, <<"z">>, <<".">>, <<"(">> }

\* the dicts of at most MaxEntries items
FindDicts ==
    UNION { {d \in [1..n -> {Item(k, v) : k \in FindKeys, v \in FindValues}] :
                \A i, j \in 1..n : i # j => d[i].k # d[j].k}
            : n \in 0..MaxEntries }

\* the state of process() while a function is checked on its own
NoProcess ==
    /\ session_id \in SessionIds
    /\ pidx = 1
    /\ table_list = None
    /\ donation_dict = None
    /\ file_result = Response("PayloadFalse", NoFile)
    /\ validation = NoValidation
    /\ consent_result = Response("PayloadFalse", <<>>)
    /\ dd_i = 0
    /\ out = <<>>
    /\ host_exc = ""
    /\ outstanding = {}
    /\ tries = [p \in 1..Len(platforms) |-> 0]
    /\ trans = <<>>
    /\ late_sends = 0
    /\ zfile = NoFile
    /\ vresult = NoResult

ProcessVars == <<session_id, pidx, table_list, donation_dict, file_result,
                 validation, consent_result, dd_i, out, host_exc, outstanding,
                 tries, trans, late_sends, zfile, vresult>>

InitFind ==
    /\ pc = "f_call"
    /\ NoProcess
    /\ call \in {[d |-> d, key_to_match |-> x] : d \in FindDicts, x \in FindPatterns}
    /\ ret = NoCall

CallFindItem ==
    /\ pc = "f_call"
    /\ ret' = find_item(call.d, call.key_to_match)
    /\ pc' = "f_item"
    /\ UNCHANGED <<ProcessVars, call>>

CallFindItems ==
    /\ pc = "f_call"
    /\ ret' = find_items(call.d, call.key_to_match)
    /\ pc' = "f_items"
    /\ UNCHANGED <<ProcessVars, call>>

NextFind == CallFindItem \/ CallFindItems

SpecFind == InitFind /\ [][NextFind]_vars

----------------------------------------------------------------------------
(* dict_denester, helpers.py:29-57.  A nested structure is a node: a leaf  *)
(* with its value, or a dict or a list with its items in iteration order;  *)
(* the items of a list are what enumerate() gives, the index as key.       *)

Node(kind, val, items) == [kind |-> kind, val |-> val, items |-> items]

Leaf(v) == Node("leaf", v, <<>>)

\* the decimal digits of a natural number, str(i) of an index
RECURSIVE Digits(_)
Digits(n) ==
    LET d == <<"0", "1", "2", "3", "4", "5", "6", "7", "8", "9">>[(n % 10) + 1]
    IN  IF n < 10 THEN <<d>> ELSE Append(Digits(n \div 10), d)

\* a dict with keys ks and values f, item by item
DictNode(ks, f) ==
    Node("dict", Obj("NoneType", <<>>), [i \in 1..Len(f) |-> Item(ks[i], f[i])])

\* a list with elements f: enumerate(inp) pairs each with its 0-based index
ListNode(f) ==
    Node("list", Obj("NoneType", <<>>),
         [i \in 1..Len(f) |-> Item(Obj("int", Digits(i - 1)), f[i])])

\* s[1:]
DropFirst(s) == IF s = <<>> THEN <<>> ELSE Tail(s)

\* an update that leaves the value of an existing key as it is
Update_keepfirst(new, k, v) ==
    IF \E i \in 1..Len(new) : new[i].k = k
    THEN new
    ELSE Append(new, Item(k, v))

\* new.update({k: v}) on a dict kept as the sequence of its items: the value
\* of an existing key is replaced in place, a new key is added at the end
Update(new, k, v) ==
    IF \E i \in 1..Len(new) : new[i].k = k
    THEN [i \in 1..Len(new) |-> IF new[i].k = k THEN Item(k, v) ELSE new[i]]
    ELSE Append(new, Item(k, v))

\* helpers.py:42-55: the call dict_denester(inp, new, name, run_first=False);
\* the result is new after the call.  DenestItems is the loop over the
\* items of a dict (helpers.py:43-48) or of a list (helpers.py:51-52) from
\* item i on.
RECURSIVE Denest(_, _, _), DenestItems(_, _, _, _)
Denest(inp, new, name) ==
    IF inp.kind = "leaf"
    THEN Update(new, Obj("str", DropFirst(name)), inp.val)
    ELSE DenestItems(inp, 1, new, name)

DenestItems(inp, i, new, name) ==
    IF i > Len(inp.items)
    THEN new
    ELSE LET k == inp.items[i].k
             v == inp.items[i].v
             newname == name \o <<"-">> \o str(k)
         IN  IF inp.kind = "dict" /\ v.kind = "leaf"
             THEN DenestItems(inp, i + 1,
                              Update(new, Obj("str", DropFirst(newname)), v.val),
                              name)
             ELSE DenestItems(inp, i + 1, Denest(v, new, newname), name)

\* dict_denester(inp): run_first is True, new starts as {} and name as ""
dict_denester(inp) == [exc |-> "", out |-> Denest(inp, <<>>, <<>>)]

----------------------------------------------------------------------------
(* dict_denester on its own: the input is any structure without empty      *)
(* containers of at most MaxLeaves leaves: a leaf, a container of leaves,  *)
(* or a container of leaves and of containers of leaves.                   *)

\* the keys of the dicts; one holds the separator "-"
DenestKeys ==
    { Obj("str", <<"a">>), Obj("str", <<"0">>), Obj("str", <<"a", "-", "0">>) }

DenestValues == { Obj("str", <<"x">>), Obj("int", <<"7">>) }

\* the sequences of n distinct keys
DistinctKeys(n) ==
    {ks \in [1..n -> DenestKeys] : \A i, j \in 1..n : i # j => ks[i] # ks[j]}

\* the ways to write n as a sum of positive numbers, in order
Compositions(n) ==
    {c \in UNION {[1..m -> 1..n] : m \in 1..n} : SeqSum(c) = n}

\* the containers whose items are, in order, one structure of T[c[i]] each
ContainersOf(c, T) ==
    LET fs == {f \in [1..Len(c) -> UNION {T[c[i]] : i \in 1..Len(c)}] :
                  \A i \in 1..Len(c) : f[i] \in T[c[i]]}
    IN  {ListNode(f) : f \in fs}
        \cup UNION { {DictNode(ks, f) : ks \in DistinctKeys(Len(c))} : f \in fs }

\* Trees0[n]: the leaves (n = 1)
Trees0 == [n \in 1..MaxLeaves |-> IF n = 1 THEN {Leaf(v) : v \in DenestValues} ELSE {}]

\* Trees1[n]: the structures of n leaves nested at most one deep
Trees1 ==
    [n \in 1..MaxLeaves |->
        Trees0[n] \cup UNION {ContainersOf(c, Trees0) : c \in Compositions(n)}]

\* Trees2[n]: the structures of n leaves nested at most two deep
Trees2 ==
    [n \in 1..MaxLeaves |->
        Trees0[n] \cup UNION {ContainersOf(c, Trees1) : c \in Compositions(n)}]

DenestInputs == UNION {Trees2[n] : n \in 1..MaxLeaves}

InitDenest ==
    /\ pc = "d_call"
    /\ NoProcess
    /\ call \in {[inp |-> t] : t \in DenestInputs}
    /\ ret = NoCall

CallDictDenester ==
    /\ pc = "d_call"
    /\ ret' = dict_denester(call.inp)
    /\ pc' = "d_ret"
    /\ UNCHANGED <<ProcessVars, call>>

NextDenest == CallDictDenester

SpecDenest == InitDenest /\ [][NextDenest]_vars

----------------------------------------------------------------------------
(* split_dataframe on its own: the input is a frame of at most             *)
(* MaxSplitRows rows and a chunk_size of 1..MaxChunkSize, and the function *)
(* is applied once.                                                        *)

InitSplit ==
    /\ pc = "s_call"
    /\ NoProcess
    /\ call \in {[df |-> DataFrame({"Tijdstip", "Gekeken video"}, 0, n),
                  chunk_size |-> cs] : n \in 0..MaxSplitRows, cs \in 1..MaxChunkSize}
    /\ ret = NoCall

CallSplitDataframe ==
    /\ pc = "s_call"
    /\ ret' = [exc |-> "", out |-> split_dataframe(call.df, call.chunk_size)]
    /\ pc' = "s_ret"
    /\ UNCHANGED <<ProcessVars, call>>

NextSplit == CallSplitDataframe

SpecSplit == InitSplit /\ [][NextSplit]_vars

----------------------------------------------------------------------------
(* Vocabulary of the properties *)

PlatformIds == 1..Len(platforms)

PName(p) == platforms[p].name

\* the generator is suspended at a yield
Suspended == pc \notin {"start", "done", "raised", "v_call", "v_ret"}

\* a donate command that carries data of platform p: keyed by the bare
\* platform name, or by f"{platform_name}_{k}"
IsWholeTableDonation(c, p) ==
    c.type = "donate" /\ c.key = Key("", <<N(PName(p))>>)

IsDictDonation(c, p) ==
    /\ c.type = "donate"
    /\ c.key.sep = "_"
    /\ Len(c.key.parts) = 2
    /\ c.key.parts[1] = N(PName(p))

IsDataDonation(c, p) == IsWholeTableDonation(c, p) \/ IsDictDonation(c, p)

IsLogDonation(c, p) == c = donate_logs(PlatformLogKey(session_id, PName(p)))

IsStatus(c, p, tail, message) ==
    c = donate_status(StatusKey(session_id, PName(p), tail), message)

IsAnyStatus(c) == c.type = "donate" /\ c.payload.kind = "status"

IsFilePrompt(c, p) ==
    /\ c.type = "render"
    /\ c.key = Key("", <<N(PName(p))>>)
    /\ c.payload.kind = "prompt_file"

IsConsentForm(c, p) ==
    /\ c.type = "render"
    /\ c.key = Key("", <<N(PName(p))>>)
    /\ c.payload.kind = "consent_form"

WholeTableDonations(p) == {i \in 1..Len(out) : IsWholeTableDonation(out[i], p)}

DictDonations(p) == {i \in 1..Len(out) : IsDictDonation(out[i], p)}

DataDonations(p) == WholeTableDonations(p) \cup DictDonations(p)

FilePrompts(p) == {i \in 1..Len(out) : IsFilePrompt(out[i], p)}

\* the transitions of platform p taken so far
TransOf(p, name) == {i \in 1..Len(trans) : trans[i].p = p /\ trans[i].name = name}

\* the generator has left the processing of platform p
Left(p) == pidx > p

\* the commands yielded from transition i up to the next transition
SegmentEnd(i) == IF i < Len(trans) THEN trans[i + 1].at ELSE Len(out)

Segment(i) == {j \in 1..Len(out) : trans[i].at < j /\ j <= SegmentEnd(i)}

\* transition i is over: another transition followed, or its platform was left
SegmentComplete(i) == i < Len(trans) \/ Left(trans[i].p)

----------------------------------------------------------------------------
(* C1: when a rejected file (status id # 0) is answered with "try again",  *)
(* exactly one further file prompt is rendered for that platform per       *)
(* retry, and no data of the platform is donated unless a valid file was   *)
(* supplied afterwards (and never once the user has declined).             *)
C1_RetryReprompts ==
    \A p \in PlatformIds :
        /\ tries[p] > 0 =>
             Cardinality(FilePrompts(p)) =
                 tries[p] + (IF pidx = p /\ pc = "L60" THEN 0 ELSE 1)
        /\ Cardinality(TransOf(p, "retry_chosen")) = tries[p]
        /\ Cardinality(TransOf(p, "file_rejected")) >= tries[p]
        /\ DataDonations(p) # {} =>
             /\ TransOf(p, "file_accepted") # {}
             /\ TransOf(p, "file_skipped") = {}
             /\ TransOf(p, "skipped_during_retry") = {}
             /\ pidx = p => (file_result.type = "PayloadString"
                              /\ StatusId(validation) = 0)

\* a retry was chosen and the platform's file prompt was rendered again
C1_Witness ==
    \E p \in PlatformIds :
        /\ tries[p] = 1
        /\ pidx = p
        /\ pc = "L64"
        /\ Cardinality(FilePrompts(p)) = 2

\* a retry was followed by a valid file and a donation
C1_WitnessDonated ==
    \E p \in PlatformIds : tries[p] = 1 /\ DataDonations(p) # {}

----------------------------------------------------------------------------
(* C2: the run never stops before the exit command: whenever the generator *)
(* is no longer suspended, every platform got its file prompt and the exit *)
(* command was emitted.                                                    *)
C2_AlwaysReachesExit ==
    pc \in {"done", "raised"} =>
        /\ \A p \in PlatformIds : FilePrompts(p) # {}
        /\ \E i \in 1..Len(out) : out[i] = exit(0, "Success")

----------------------------------------------------------------------------
(* C3 as stated: when the extraction returned no table, the first command  *)
(* of the consent step is the NO_DATA_FOUND status event.                  *)
C3_StatusBeforeAnythingElse ==
    \A i \in 1..Len(trans) :
        (trans[i].name = "extraction_done" /\ trans[i].n = 0
            /\ Len(out) > trans[i].at) =>
        IsStatus(out[trans[i].at + 1], trans[i].p, "NO-DATA-FOUND", "NO_DATA_FOUND")

(* C3 amended: when the extraction returned no table, the consent step     *)
(* yields its tracking log, then the NO_DATA_FOUND status event, then the  *)
(* consent form, and the form holds exactly the placeholder table of the   *)
(* platform.                                                               *)
C3_PlaceholderAfterStatus ==
    \A i \in 1..Len(trans) :
        (trans[i].name = "extraction_done" /\ trans[i].n = 0) =>
        LET a == trans[i].at
            p == trans[i].p
        IN  /\ Len(out) > a => IsLogDonation(out[a + 1], p)
            /\ Len(out) > a + 1 =>
                   IsStatus(out[a + 2], p, "NO-DATA-FOUND", "NO_DATA_FOUND")
            /\ Len(out) > a + 2 =>
                   /\ IsConsentForm(out[a + 3], p)
                   /\ out[a + 3].payload.tables = <<create_empty_table(PName(p))>>
            /\ \A j \in 1..Len(out) :
                   (j > a /\ IsConsentForm(out[j], p)) => j = a + 3

\* the placeholder form of an empty extraction is on screen
C3_Witness ==
    /\ pc = "L105"
    /\ trans # <<>>
    /\ trans[Len(trans)].name = "extraction_done"
    /\ trans[Len(trans)].n = 0
    /\ Get(table_list) = <<create_empty_table(platform_name)>>

----------------------------------------------------------------------------
(* C4: when the extraction returned a donation mapping with N keys and the *)
(* consent form was accepted, exactly N donate commands keyed              *)
(* platform_key are emitted, the k-th for the k-th key with that entry as  *)
(* payload, and no donate command keyed by the bare platform name.         *)
C4_OneDonationPerKey ==
    (pidx \in PlatformIds /\ pc \in {"L113", "L114"} /\ ~IsNone(donation_dict)) =>
        LET d == Get(donation_dict)
            a == trans[Len(trans)].at
        IN  /\ trans[Len(trans)].name = "consent_accepted"
            /\ Cardinality(DictDonations(pidx)) = Len(d)
            /\ \A k \in 1..Len(d) :
                   out[a + k] = donate(Key("_", <<N(platform_name), d[k].name>>),
                                       Payload("dict", "", <<d[k]>>))
            /\ \A j, k \in 1..Len(d) : d[j].name = d[k].name => j = k
            /\ WholeTableDonations(pidx) = {}

\* a mapping with at least two keys has been donated
C4_Witness ==
    /\ pc = "L114"
    /\ ~IsNone(donation_dict)
    /\ Len(Get(donation_dict)) >= 2
    /\ Cardinality(DictDonations(pidx)) >= 2

----------------------------------------------------------------------------
\* the state right after the DONATED status event of a platform without a
\* donation mapping whose extraction found at least one table
DonatedWholeTable ==
    /\ pidx \in PlatformIds
    /\ pc = "L114"
    /\ IsNone(donation_dict)
    /\ \E i \in 1..Len(trans) :
          trans[i].p = pidx /\ trans[i].name = "extraction_done" /\ trans[i].n > 0

(* C5 as stated: for a platform without a donation mapping, after a        *)
(* recognized archive, a non-empty extraction and an accepted consent      *)
(* form, the donate command keyed by the platform name carries the         *)
(* serialized rows of the extracted tables.                                *)
C5_CarriesTableRows ==
    DonatedWholeTable =>
        \A i \in WholeTableDonations(pidx) :
            out[i].payload.tables = Serialize(Get(table_list))

(* C5 amended: in that case exactly one donate command keyed by the        *)
(* platform name is emitted, it carries the value of the host's consent    *)
(* response, and it is followed by the tracking log and then the DONATED   *)
(* status event.                                                           *)
C5_CarriesConsentPayload ==
    DonatedWholeTable =>
        LET n == Len(out)
        IN  /\ WholeTableDonations(pidx) = {n - 2}
            /\ out[n - 2] = donate(Key("", <<N(platform_name)>>),
                                   Payload("consent_json", "", consent_result.value))
            /\ IsLogDonation(out[n - 1], pidx)
            /\ IsStatus(out[n], pidx, "DONATED", "DONATED")
            /\ DictDonations(pidx) = {}
            /\ StatusId(validation) = 0

\* YouTube data was donated after the user removed a row in the consent form
C5_Witness ==
    /\ DonatedWholeTable
    /\ platform_name = "YouTube"
    /\ consent_result.value # Serialize(Get(table_list))

----------------------------------------------------------------------------
(* C6: once the generator has finished, exactly one exit command was       *)
(* emitted, it is exit(0, "Success"), the end page render is the last      *)
(* command and directly follows the exit, and resuming the finished        *)
(* generator emits nothing more.                                           *)
C6_ExitThenEndPage ==
    pc = "done" =>
        LET n == Len(out)
        IN  /\ n >= 2
            /\ out[n - 1] = exit(0, "Success")
            /\ out[n] = render_end_page
            /\ {i \in 1..n : out[i].type = "exit"} = {n - 1}
            /\ {i \in 1..n : out[i].payload.kind = "end"} = {n}
            /\ \A p \in PlatformIds : FilePrompts(p) # {}
            /\ outstanding = {}

\* the finished generator has been resumed once more
C6_Witness ==
    /\ pc = "done"
    /\ late_sends >= 1
    /\ host_exc = "StopIteration"

----------------------------------------------------------------------------
(* C7 as stated: the generator is suspended only at render commands.       *)
C7_SuspendsOnlyAtRender ==
    Suspended => out[Len(out)].type = "render"

\* the lines at which process() reads the response of the host
\* (script.py:64, 81, 105) and the kind of render command each one answers
ResponseLines == {"L64", "L81", "L105"}

AskedAt(l) ==
    CASE l = "L64" -> "prompt_file"
      [] l = "L81" -> "confirm"
      [] l = "L105" -> "consent_form"

\* the render command that asks the user something about platform p
Asks(c, p, kind) ==
    /\ c.type = "render"
    /\ c.key = Key("", <<N(PName(p))>>)
    /\ c.payload.kind = kind

(* C7 amended: process() is suspended at every command it yields, donate   *)
(* and exit commands as well as render commands.  It is suspended at a     *)
(* render command exactly at the lines where it reads the host's response  *)
(* (and at the final end page): at line 64 the last command is the file    *)
(* prompt of the platform, at line 81 its retry confirmation, at line 105  *)
(* its consent form, so the response process() reads is the response to    *)
(* that render command; what it does next follows that response; a donate  *)
(* command separates any two render commands, and the only render command  *)
(* not yet answered is the last command yielded.                           *)
C7_RenderAwaitsItsResponse ==
    /\ Suspended => Len(out) >= 1
    /\ Suspended =>
          (out[Len(out)].type = "render" <=> pc \in ResponseLines \cup {"L122"})
    /\ pc \in ResponseLines => Asks(out[Len(out)], pidx, AskedAt(pc))
    /\ pc = "L122" => out[Len(out)] = render_end_page
    /\ pc \in {"L72", "L80"} => file_result.type = "PayloadString"
    /\ pc = "L91" => file_result.type # "PayloadString"
    /\ pc \in {"L555", "L112"} => consent_result.type = "PayloadJSON"
    /\ pc = "L118" => consent_result.type # "PayloadJSON"
    /\ \A i \in 1..(Len(out) - 1) :
          out[i].type = "render" => out[i + 1].type = "donate"
    /\ Cardinality(outstanding) <= 1
    /\ \A i \in outstanding : i = Len(out) /\ out[i].type = "render"
    /\ (Suspended /\ out[Len(out)].type = "render") => outstanding = {Len(out)}

\* the generator is suspended at the retry confirmation, its second render
\* command, and a donate command separated it from the file prompt
C7_Witness ==
    /\ pc = "L81"
    /\ Asks(out[Len(out)], pidx, "confirm")
    /\ outstanding = {Len(out)}
    /\ \E i \in 1..Len(out) - 1 : out[i].type = "render"
    /\ out[Len(out) - 1].type = "donate"

----------------------------------------------------------------------------
\* the status messages among out[lo..hi], in order
RECURSIVE StatusTexts(_, _)
StatusTexts(lo, hi) ==
    IF lo > hi THEN <<>>
    ELSE (IF IsAnyStatus(out[lo]) THEN <<out[lo].payload.text>> ELSE <<>>)
         \o StatusTexts(lo + 1, hi)

\* the status messages yielded between transition i and the next one
SegmentStatus(i) == StatusTexts(trans[i].at + 1, SegmentEnd(i))

\* the status messages a transition is followed by in process()
ExpectedStatus(t) ==
    CASE t.name = "consent_accepted" -> <<"DONATED">>
      [] t.name = "consent_declined" -> <<"SKIP_REVIEW_CONSENT">>
      [] t.name = "extraction_done" /\ t.n = 0 -> <<"NO_DATA_FOUND">>
      [] OTHER -> <<>>

(* C8 as stated: every transition of the per-platform workflow is followed *)
(* by a status event before the next transition.                           *)
C8_EveryTransitionHasStatus ==
    \A i \in 1..Len(trans) :
        SegmentComplete(i) => SegmentStatus(i) # <<>>

(* C8 amended: every transition is directly followed by a donate command   *)
(* of its platform - the tracking log, or the data donation when consent   *)
(* was accepted - and a tracking log is yielded before the next            *)
(* transition; a status event follows only the accepted consent (DONATED), *)
(* the declined consent (SKIP_REVIEW_CONSENT) and an extraction without    *)
(* tables (NO_DATA_FOUND).                                                 *)
C8_TransitionsLogged ==
    \A i \in 1..Len(trans) :
        LET t == trans[i]
        IN  /\ Len(out) > t.at
            /\ out[t.at + 1].type = "donate"
            /\ IsLogDonation(out[t.at + 1], t.p) \/ IsDataDonation(out[t.at + 1], t.p)
            /\ SegmentComplete(i) =>
                  /\ \E j \in Segment(i) : IsLogDonation(out[j], t.p)
                  /\ SegmentStatus(i) = ExpectedStatus(t)

\* a platform was skipped at the file prompt and left without any status event
C8_Witness ==
    \E i \in 1..Len(trans) :
        /\ trans[i].name = "file_skipped"
        /\ SegmentComplete(i)
        /\ SegmentStatus(i) = <<>>
        /\ \E j \in 1..Len(trans) : trans[j].name = "consent_accepted" /\ Left(trans[j].p)

----------------------------------------------------------------------------
\* the transitions by which the user declines
Declines == {"file_skipped", "skipped_during_retry", "consent_declined"}

\* the command that opens the processing after platform p: the tracking log
\* of the next platform, or the exit command after the last one
OpensNext(c, p) ==
    IF p < Len(platforms) THEN IsLogDonation(c, p + 1) ELSE c = exit(0, "Success")

(* C9: declining (no file at the file prompt, "continue" at the retry      *)
(* confirmation, decline at the consent form) raises nothing; the platform *)
(* ends as skipped: no data of it is donated, only its tracking log - and  *)
(* after a declined consent form the SKIP_REVIEW_CONSENT status event - is *)
(* emitted, and the next command belongs to the next platform (or is the   *)
(* exit command after the last platform); an exception that ends the run   *)
(* later is raised on the file of a later platform.                        *)
C9_DeclineSkipsPlatform ==
    \A i \in 1..Len(trans) :
        trans[i].name \in Declines =>
        LET t == trans[i]
            a == t.at
            k == IF t.name = "consent_declined" THEN 2 ELSE 1
        IN  /\ DataDonations(t.p) = {}
            /\ \A j \in 1..Len(trans) : j > i => trans[j].p > t.p
            /\ Len(out) > a /\ IsLogDonation(out[a + 1], t.p)
            /\ (t.name = "consent_declined" /\ Len(out) > a + 1) =>
                   IsStatus(out[a + 2], t.p, "SKIP-REVIEW-CONSENT", "SKIP_REVIEW_CONSENT")
            /\ Len(out) > a + k => OpensNext(out[a + k + 1], t.p)
            /\ pidx = t.p => (pc \in {"L87", "L91", "L118", "L119"} /\ host_exc = "")
            /\ (pidx > t.p /\ pc = "raised") =>
                   \E j \in (a + k + 1)..Len(out) : IsFilePrompt(out[j], pidx)

\* the user declined the consent form of the first platform and the file
\* prompt of the second one was rendered
C9_Witness ==
    /\ pidx = 2
    /\ pc = "L64"
    /\ TransOf(1, "consent_declined") # {}

----------------------------------------------------------------------------
\* the file names of an archive, whatever their suffix
MemberNames(zf) == {PathName(f) : f \in zf.members}

\* the categories that list a file of the archive
MatchingCategories(zf) ==
    {c \in Range(DDP_CATEGORIES) : c.known_files \cap MemberNames(zf) # {}}

\* the inputs that are no valid archive: bytes that are no ZIP container
\* and containers that are corrupt or not supported
CorruptOrNonZip == {"notzip", "unsupported", "badname"}

(* C10: for an input that is corrupt or no ZIP container, and for a ZIP    *)
(* that is read, validate_zip returns without raising: status id 3 for the *)
(* corrupt or non-ZIP input; status id 1 and no category for a ZIP without *)
(* a known file of any category; status id 0 and a category that lists one *)
(* of the archive's files for a ZIP with at least one known file.          *)
C10_ValidateZipStatus ==
    (pc = "v_ret" /\ zfile.kind \in CorruptOrNonZip \cup {"zip"}) =>
        /\ vresult.exc = ""
        /\ ~IsNone(vresult.validation.status_code)
        /\ Get(vresult.validation.status_code) \in Range(STATUS_CODES)
        /\ zfile.kind \in CorruptOrNonZip =>
              /\ StatusId(vresult.validation) = 3
              /\ Get(vresult.validation.status_code).description = "Bad zipfile"
              /\ IsNone(vresult.validation.ddp_category)
        /\ (zfile.kind = "zip" /\ MatchingCategories(zfile) = {}) =>
              /\ StatusId(vresult.validation) = 1
              /\ Get(vresult.validation.status_code).description
                     = "Valid DDP unhandled format"
              /\ IsNone(vresult.validation.ddp_category)
        /\ (zfile.kind = "zip" /\ MatchingCategories(zfile) # {}) =>
              /\ StatusId(vresult.validation) = 0
              /\ ~IsNone(vresult.validation.ddp_category)
              /\ Get(vresult.validation.ddp_category) \in MatchingCategories(zfile)

----------------------------------------------------------------------------
(* Vocabulary of the properties of find_item and find_items *)

\* a table as dict_denester makes it: every key is a str
FlattenedTable(d) == \A i \in 1..Len(d) : d[i].k.type = "str"

\* the characters x occur in k as a substring
Contains(k, x) ==
    \E i \in 1..(Len(k) - Len(x) + 1) : SubSeq(k, i, i + Len(x) - 1) = x

\* the items of d up to the first one at which re.match raises
BeforeError(d, x) ==
    LET bad == {i \in 1..Len(d) : MatchRaises(x, d[i].k) # ""}
    IN  IF bad = {} THEN d
        ELSE SubSeq(d, 1, (CHOOSE i \in bad : \A j \in bad : i <= j) - 1)

\* re.match raises at some item of d
ErrorOccurs(d, x) == BeforeError(d, x) # d

\* the positions in d of the keys the pattern matches
MatchingAt(d, x) == {i \in 1..Len(d) : re_match(x, d[i].k.text)}

\* the positions in d of the keys of a set of positions with the fewest "-"
Shallowest(d, at) ==
    {i \in at : \A j \in at : CountDash(d[i].k.text) <= CountDash(d[j].k.text)}

\* least and greatest element of a non-empty set of positions
First(at) == CHOOSE i \in at : \A j \in at : i <= j

Last(at) == CHOOSE i \in at : \A j \in at : j <= i

\* a find_item call on a flattened table returned without an error, and
\* several matching keys tie at the least depth
TieAtLeastDepth ==
    /\ pc = "f_item"
    /\ FlattenedTable(call.d)
    /\ ~ErrorOccurs(call.d, call.key_to_match)
    /\ Cardinality(Shallowest(call.d, MatchingAt(call.d, call.key_to_match))) >= 2

(* C12 as stated: when several matching keys tie at the minimum depth,     *)
(* find_item returns the value of the one encountered last in iteration    *)
(* order.                                                                  *)
C12_LastWinsOnTie ==
    TieAtLeastDepth =>
        ret.out = str(call.d[Last(Shallowest(call.d,
                         MatchingAt(call.d, call.key_to_match)))].v)

(* C12 amended: when several matching keys tie at the minimum depth,       *)
(* find_item returns the value (as a string) of the one encountered first  *)
(* in iteration order: the depths are compared with <, so a later key of   *)
(* the same depth does not replace it.                                     *)
C12_FirstWinsOnTie ==
    TieAtLeastDepth =>
        /\ ret.exc = ""
        /\ ret.out = str(call.d[First(Shallowest(call.d,
                            MatchingAt(call.d, call.key_to_match)))].v)

\* {"a-1": "p", "a-2": "q"} and "a": the result is "p", not "q"
C12_Witness ==
    /\ TieAtLeastDepth
    /\ call.d = << Item(Obj("str", <<"a", "-", "1">>), Obj("str", <<"p">>)),
                   Item(Obj("str", <<"a", "-", "2">>), Obj("str", <<"q">>)) >>
    /\ call.key_to_match = <<"a">>
    /\ ret.out = <<"p">>

----------------------------------------------------------------------------
\* the positions in d of the keys that contain x as a substring
ContainingAt(d, x) == {i \in 1..Len(d) : Contains(d[i].k.text, x)}

(* C13: among all keys of a flattened table that contain the substring,    *)
(* the value find_item returns (as a string) belongs to a key with the     *)
(* fewest "-"; if no key contains the substring the result is the empty    *)
(* string.                                                                 *)
C13_ShallowestContainingKey ==
    (pc = "f_item" /\ FlattenedTable(call.d)) =>
        LET at == ContainingAt(call.d, call.key_to_match)
        IN  IF at = {}
            THEN ret.out = <<>>
            ELSE \E i \in Shallowest(call.d, at) : ret.out = str(call.d[i].v)

----------------------------------------------------------------------------
\* the result of find_item on the items of p: the first of the shallowest
\* matching keys
FirstShallowest(p, x) ==
    IF MatchingAt(p, x) = {} THEN <<>>
    ELSE str(p[First(Shallowest(p, MatchingAt(p, x)))].v)

\* the result of find_items on the items of p: the values of the matching
\* keys, in order
RECURSIVE AllMatching(_, _)
AllMatching(p, x) ==
    IF p = <<>> THEN <<>>
    ELSE (IF re_match(x, Head(p).k.text) THEN <<str(Head(p).v)>> ELSE <<>>)
         \o AllMatching(Tail(p), x)

(* C14 as stated: an error inside find_item or find_items is caught and    *)
(* the call is treated as "no match": find_item returns the empty string   *)
(* and find_items the empty list, also when matches were found earlier in  *)
(* the iteration.                                                          *)
C14_ErrorMeansNoMatch ==
    (pc \in {"f_item", "f_items"} /\ ErrorOccurs(call.d, call.key_to_match)) =>
        /\ ret.exc = ""
        /\ ret.out = <<>>

(* C14 amended: an error inside find_item or find_items is caught and      *)
(* never reaches the caller; the call returns what it had found in the     *)
(* items before the one that raised: the empty string / empty list when    *)
(* nothing matched before (always so for a pattern that does not compile), *)
(* otherwise the matches found so far.                                     *)
C14_ErrorKeepsEarlierMatches ==
    (pc \in {"f_item", "f_items"} /\ ErrorOccurs(call.d, call.key_to_match)) =>
        LET p == BeforeError(call.d, call.key_to_match)
        IN  /\ ret.exc = ""
            /\ PatternError(call.key_to_match) => ret.out = <<>>
            /\ ~PatternError(call.key_to_match) =>
                  /\ pc = "f_item" => ret.out = FirstShallowest(p, call.key_to_match)
                  /\ pc = "f_items" => ret.out = AllMatching(p, call.key_to_match)

\* find_items meets a key that is no str after a match: the match is
\* returned
C14_Witness ==
    /\ pc = "f_items"
    /\ Len(call.d) = 2
    /\ call.d[2].k.type # "str"
    /\ ~PatternError(call.key_to_match)
    /\ MatchingAt(BeforeError(call.d, call.key_to_match), call.key_to_match) # {}
    /\ ret.exc = ""
    /\ ret.out = <<str(call.d[1].v)>>

\* a pattern that does not compile: nothing is returned, nothing is raised
C14_WitnessPattern ==
    /\ pc = "f_item"
    /\ PatternError(call.key_to_match)
    /\ Len(call.d) > 0
    /\ ret.exc = ""
    /\ ret.out = <<>>

----------------------------------------------------------------------------
\* the values (as strings) of the keys of p that contain x, in order
RECURSIVE AllContaining(_, _)
AllContaining(p, x) ==
    IF p = <<>> THEN <<>>
    ELSE (IF Contains(Head(p).k.text, x) THEN <<str(Head(p).v)>> ELSE <<>>)
         \o AllContaining(Tail(p), x)

(* C18: find_items returns the string value of every key of a flattened    *)
(* table that contains the substring anywhere in the key, in iteration     *)
(* order and whatever the depth of the key; keys that do not contain the   *)
(* substring contribute nothing.                                           *)
C18_AllContainingKeys ==
    (pc = "f_items" /\ FlattenedTable(call.d)) =>
        ret.out = AllContaining(call.d, call.key_to_match)

----------------------------------------------------------------------------
(* Vocabulary of the properties of dict_denester *)

\* the leaves of a structure in traversal order, each with the keys and
\* indices on the way to it
RECURSIVE LeavesOf(_, _), LeavesOfItems(_, _, _)
LeavesOf(t, path) ==
    IF t.kind = "leaf" THEN << [path |-> path, val |-> t.val] >>
    ELSE LeavesOfItems(t.items, 1, path)

LeavesOfItems(items, i, path) ==
    IF i > Len(items) THEN <<>>
    ELSE LeavesOf(items[i].v, Append(path, str(items[i].k)))
         \o LeavesOfItems(items, i + 1, path)

\* "-".join(path)
RECURSIVE JoinDash(_)
JoinDash(path) ==
    IF path = <<>> THEN <<>>
    ELSE IF Len(path) = 1 THEN path[1]
    ELSE path[1] \o <<"-">> \o JoinDash(Tail(path))

\* the key under which a leaf is written
PathKey(leaf) == Obj("str", JoinDash(leaf.path))

\* the leaves of the structure handed to dict_denester
InputLeaves == LeavesOf(call.inp, <<>>)

\* the positions in the returned table of the items with key k
EntriesOf(k) == {j \in 1..Len(ret.out) : ret.out[j].k = k}

(* C15 as stated: flattening a structure without empty containers yields a *)
(* table in which every leaf appears under exactly one key and distinct    *)
(* leaves get distinct keys, so the table has exactly as many entries as   *)
(* the source has leaves.                                                  *)
C15_OneEntryPerLeaf ==
    pc = "d_ret" =>
        /\ Len(ret.out) = Len(InputLeaves)
        /\ \A i \in 1..Len(InputLeaves) :
              /\ Cardinality(EntriesOf(PathKey(InputLeaves[i]))) = 1
              /\ \A j \in EntriesOf(PathKey(InputLeaves[i])) :
                    ret.out[j].v = InputLeaves[i].val
        /\ \A i, j \in 1..Len(InputLeaves) :
              i # j => PathKey(InputLeaves[i]) # PathKey(InputLeaves[j])

(* C15 amended: flattening a structure without empty containers yields a   *)
(* table with exactly one entry per distinct dash-joined path of a leaf:   *)
(* the key is the path, the value is that of the last leaf with this path  *)
(* in traversal order (a leaf whose path equals that of a later leaf is    *)
(* overwritten), and no other entry exists; when no two leaves share a     *)
(* path the table has exactly as many entries as the source has leaves.    *)
C15_OneEntryPerPath ==
    pc = "d_ret" =>
        /\ ret.exc = ""
        /\ \A i \in 1..Len(InputLeaves) :
              /\ Cardinality(EntriesOf(PathKey(InputLeaves[i]))) = 1
              /\ \A j \in EntriesOf(PathKey(InputLeaves[i])) :
                    ret.out[j].v =
                       InputLeaves[Last({l \in 1..Len(InputLeaves) :
                           PathKey(InputLeaves[l]) = PathKey(InputLeaves[i])})].val
        /\ \A j \in 1..Len(ret.out) :
              \E i \in 1..Len(InputLeaves) : ret.out[j].k = PathKey(InputLeaves[i])
        /\ Len(ret.out) =
              Cardinality({PathKey(InputLeaves[i]) : i \in 1..Len(InputLeaves)})
        /\ (\A i, j \in 1..Len(InputLeaves) :
               i # j => PathKey(InputLeaves[i]) # PathKey(InputLeaves[j]))
           => Len(ret.out) = Len(InputLeaves)

\* {"a": {"0": "x"}, "a-0": 7}: two leaves with the path "a-0", one entry,
\* which holds the later value
C15_Witness ==
    /\ pc = "d_ret"
    /\ Len(InputLeaves) = 2
    /\ PathKey(InputLeaves[1]) = PathKey(InputLeaves[2])
    /\ InputLeaves[1].val # InputLeaves[2].val
    /\ Len(ret.out) = 1
    /\ ret.out[1].v = InputLeaves[2].val

\* a structure whose leaves all have different paths: one entry per leaf
C15_WitnessDistinct ==
    /\ pc = "d_ret"
    /\ Len(InputLeaves) = 2
    /\ PathKey(InputLeaves[1]) # PathKey(InputLeaves[2])
    /\ call.inp.kind = "dict"
    /\ call.inp.items[1].v.kind = "list"
    /\ Len(ret.out) = 2

----------------------------------------------------------------------------
\* the watch-history member that the matched category names is missing from
\* the archive, or its markup cannot be read
WatchHistoryUnavailable(zf, v) ==
    LET file_name == IF Get(v.ddp_category).language = "NL"
                     THEN "kijkgeschiedenis.html" ELSE "watch-history.html"
    IN  ~HasMember(zf, file_name) \/ zf.watch < 0

\* the generator has just run extract_youtube on an accepted file (resumed
\* from the yield of script.py:72)
ExtractedYouTube ==
    /\ pidx = 1
    /\ trans # <<>>
    /\ \/ pc = "L97" /\ trans[Len(trans)].name = "extraction_done"
       \/ pc = "raised" /\ trans[Len(trans)].name = "file_accepted"

(* C16: when the watch-history member of an accepted YouTube archive is    *)
(* missing or malformed, extract_youtube does not raise: the watch-history *)
(* table is left out and the search history and the subscriptions are     *)
(* still extracted and returned to the workflow.                           *)
C16_ExtractionFailureContained ==
    (ExtractedYouTube /\ WatchHistoryUnavailable(file_result.value, validation)) =>
        /\ host_exc = ""
        /\ pc = "L97"
        /\ ~IsNone(table_list)
        /\ Get(table_list) =
              NonEmptyTables(
                  << PropsUIPromptConsentFormTable(N("youtube_search_history"),
                         search_history_to_df(file_result.value, validation)),
                     PropsUIPromptConsentFormTable(N("idasjdhj1"),
                         subscriptions_to_df(file_result.value, validation)) >>)

----------------------------------------------------------------------------
\* the tables of a sequence that are chunks of the TikTok browsing history
RECURSIVE BrowsingTables(_)
BrowsingTables(tables) ==
    IF tables = <<>> THEN <<>>
    ELSE (IF Head(tables).name.base = "tiktok_video_browsing_history"
          THEN <<Head(tables)>> ELSE <<>>) \o BrowsingTables(Tail(tables))

\* the positions in out of the donations of browsing-history chunks
BrowsingDonations ==
    {i \in DictDonations(2) :
        out[i].key.parts[2].base = "tiktok_video_browsing_history"}

\* the rows lo..hi-1 of the two frames do not overlap
Disjoint(df1, df2) == df1.hi <= df2.lo \/ df2.hi <= df1.lo

\* the TikTok mapping has been donated after an accepted consent form
TikTokDonated == pidx = 2 /\ pc \in {"L113", "L114"}

(* C17: for a TikTok browsing history of any number of rows, the consent   *)
(* form shows only the first chunk (at most 250000 rows), and the donate   *)
(* commands of the browsing-history entries of the mapping carry, between  *)
(* them, every row of the extracted history exactly once.                  *)
C17_CappedDonationCoversAllRows ==
    TikTokDonated =>
        LET n == DfLen(browsing_history_to_df(file_result.value))
            a == trans[Len(trans)].at
            m == Cardinality(BrowsingDonations)
            df(k) == out[a + k].payload.tables[1].df
        IN  /\ \A i \in 1..Len(out) : IsConsentForm(out[i], 2) =>
                  LET shown == BrowsingTables(out[i].payload.tables)
                  IN  IF n = 0 THEN shown = <<>>
                      ELSE /\ Len(shown) = 1
                           /\ shown[1].name = Name("tiktok_video_browsing_history", 0)
                           /\ shown[1].df.lo = 0
                           /\ shown[1].df.hi = Min(n, ChunkSize)
            /\ \E i \in 1..Len(out) : IsConsentForm(out[i], 2)
            /\ BrowsingDonations = (a + 1)..(a + m)
            /\ \A k \in 1..m : 0 <= df(k).lo /\ df(k).lo <= df(k).hi /\ df(k).hi <= n
            /\ \A j, k \in 1..m : j # k => Disjoint(df(j), df(k))
            /\ SeqSum([k \in 1..m |-> DfLen(df(k))]) = n

\* a history of more rows than the cap: one chunk of 250000 rows is shown,
\* several are donated
C17_Witness ==
    /\ TikTokDonated
    /\ pc = "L114"
    /\ DfLen(browsing_history_to_df(file_result.value)) > ChunkSize
    /\ Cardinality(BrowsingDonations) >= 2
    /\ \E i \in 1..Len(out) :
          /\ IsConsentForm(out[i], 2)
          /\ DfLen(out[i].payload.tables[1].df) = ChunkSize

----------------------------------------------------------------------------
(* C19: a donate command that carries a platform's extracted data (keyed   *)
(* by the platform name or by an entry of the donation mapping) is emitted *)
(* only after that platform's file was validated with status id 0 and the  *)
(* host answered that platform's consent form with PayloadJSON; a platform *)
(* that was skipped, rejected or declined has no such command.             *)
C19_DataDonationNeedsValidFileAndConsent ==
    \A p \in PlatformIds :
        /\ \A i \in DataDonations(p) :
              /\ \E f \in TransOf(p, "file_accepted"), c \in TransOf(p, "consent_accepted") :
                    /\ f < c
                    /\ trans[c].at < i
                    /\ \E j \in 1..trans[c].at : IsConsentForm(out[j], p)
              /\ pidx = p =>
                    /\ file_result.type = "PayloadString"
                    /\ StatusId(validation) = 0
                    /\ consent_result.type = "PayloadJSON"
        /\ (\E i \in 1..Len(trans) : trans[i].p = p /\ trans[i].name \in Declines)
              => DataDonations(p) = {}

\* YouTube was declined at the consent form and has no data donation,
\* TikTok was accepted and has one
C19_Witness ==
    /\ TransOf(1, "consent_declined") # {}
    /\ DataDonations(1) = {}
    /\ TransOf(2, "consent_accepted") # {}
    /\ DataDonations(2) # {}

----------------------------------------------------------------------------
(* C20: whenever a DONATED status event is emitted for a platform, at      *)
(* least one donate command carrying that platform's data was emitted      *)
(* before it, also when the extraction found nothing and only the          *)
(* placeholder table was shown.                                            *)
C20_DonatedStatusFollowsDonation ==
    \A p \in PlatformIds : \A i \in 1..Len(out) :
        IsStatus(out[i], p, "DONATED", "DONATED") =>
            \E j \in 1..(i - 1) : IsDataDonation(out[j], p)

----------------------------------------------------------------------------
\* the chunks hold, one after the other, the rows of df in order
ChunksInOrder(chunks, df) ==
    /\ Len(chunks) >= 1
    /\ chunks[1].lo = df.lo
    /\ chunks[Len(chunks)].hi = df.hi
    /\ \A i \in 1..Len(chunks) : chunks[i].lo <= chunks[i].hi
    /\ \A i \in 1..(Len(chunks) - 1) : chunks[i].hi = chunks[i + 1].lo

\* ceil(n / chunk_size)
CeilDiv(n, chunk_size) == (n + chunk_size - 1) \div chunk_size

(* C21: split_dataframe(df, chunk_size) with chunk_size >= 1 partitions    *)
(* the rows in order: the chunks concatenated are the rows of df, every    *)
(* chunk but the last has exactly chunk_size rows, and for a non-empty df  *)
(* no chunk is empty: n rows give ceil(n / chunk_size) chunks, also when n *)
(* is an exact multiple of chunk_size.                                     *)
C21_SplitPartitionsWithoutEmptyChunk ==
    pc = "s_ret" =>
        /\ ChunksInOrder(ret.out, call.df)
        /\ \A i \in 1..(Len(ret.out) - 1) : DfLen(ret.out[i]) = call.chunk_size
        /\ DfLen(call.df) > 0 =>
              /\ \A i \in 1..Len(ret.out) : DfLen(ret.out[i]) > 0
              /\ Len(ret.out) = CeilDiv(DfLen(call.df), call.chunk_size)

----------------------------------------------------------------------------
\* the names of the tables that the extraction of a platform makes, and of
\* its placeholder
TableNamesOf(p) ==
    IF PName(p) = "YouTube"
    THEN {"youtube_watch_history", "youtube_search_history", "idasjdhj1",
          "YouTube_no_data_found"}
    ELSE {"tiktok_video_browsing_history", "TikTok_no_data_found"}
         \cup Range(TIKTOK_TABLES)

\* the positions in out of the consent forms of platform p
ConsentForms(p) == {i \in 1..Len(out) : IsConsentForm(out[i], p)}

\* no file of platform p was accepted
NeverAccepted(p) == TransOf(p, "file_accepted") = {}

(* C22: table_list and donation_dict are None when the processing of a     *)
(* platform starts, whatever happened for the platforms before it; a       *)
(* platform whose file was skipped or rejected gets no consent form and no *)
(* data donation; and no command of a platform carries a table or mapping  *)
(* entry extracted for another platform.                                   *)
C22_PlatformsAreIsolated ==
    /\ (pidx \in PlatformIds /\ Suspended /\ TransOf(pidx, "extraction_done") = {}) =>
          /\ IsNone(table_list)
          /\ IsNone(donation_dict)
    /\ \A i \in 1..Len(out) :
          LET c == out[i]
              owners == {p \in PlatformIds : IsConsentForm(c, p) \/ IsDataDonation(c, p)}
          IN  /\ c.payload.tables # <<>> => owners # {}
              /\ \A p \in owners :
                    /\ ~NeverAccepted(p)
                    /\ \A k \in 1..Len(c.payload.tables) :
                          c.payload.tables[k].name.base \in TableNamesOf(p)

\* YouTube was donated, then the TikTok file was skipped or rejected: no
\* consent form and no data donation for TikTok
C22_Witness ==
    /\ DataDonations(1) # {}
    /\ Left(2)
    /\ NeverAccepted(2)
    /\ TransOf(2, "file_rejected") # {}
    /\ ConsentForms(2) = {}
    /\ DataDonations(2) = {}

\* both platforms were donated, each with its own tables
C22_WitnessBoth ==
    /\ Left(2)
    /\ DataDonations(1) # {}
    /\ DataDonations(2) # {}



====
